---- MODULE Spec2Model ----
(***************************************************************************)
(* Model of the packet classification and decoding core of the            *)
(* temperature UDP receiver (src/__init__.py, src/const.py):              *)
(* ModBusParser (CRC16, frame validation, register decoding, reading      *)
(* construction) and UDPProtocol (datagram dispatch, text decoding and    *)
(* classification, client table).                                         *)
(*                                                                         *)
(* Representation:                                                         *)
(*   - bytes objects are sequences of naturals in 0..255;                  *)
(*   - str objects are sequences of code points;                           *)
(*   - a float is represented by the exact rational it approximates:       *)
(*     celsius in tenths of a degree, fahrenheit in hundredths;            *)
(*   - a dict is a function whose DOMAIN is the set of its keys;           *)
(*   - Python's None, where a JSON text or a decoded text may stand, is   *)
(*     the record None.                                                    *)
(***************************************************************************)
EXTENDS Integers, Sequences, FiniteSets, TLC

VARIABLES
    known_clients,  \* UDPProtocol.known_clients: addr_str -> client_info
    now,            \* asyncio loop time, in seconds
    bus,            \* events fired on hass.bus by the most recent operation
    call,           \* the most recent operation: its name, arguments, results
    servers,        \* the UDPTempServer objects created so far
    tasks,          \* the start() and stop() coroutines in flight
    hass            \* hass.data[DOMAIN] and the services of the domain

vars == <<known_clients, now, bus, call, servers, tasks, hass>>

None == [none |-> TRUE]

\* The server objects, their coroutines and the Home Assistant registry:
\* what the entry points and UDPTempServer work on.
lifecycle == <<servers, tasks, hass>>

\* Home Assistant before the integration is loaded: no hass.data[DOMAIN], no
\* service of the domain.
NoHass == [has_domain |-> FALSE, data |-> <<>>, services |-> {}]

\* No server object is constructed and no entry point has run.
NoLifecycle ==
    /\ servers = <<>>
    /\ tasks = <<>>
    /\ hass = NoHass

\* ------------------------------------------------------------------------
\* src/const.py
\* ------------------------------------------------------------------------
MODBUS_DEVICE_ADDR_MIN == 0
MODBUS_DEVICE_ADDR_MAX == 247
MODBUS_FUNCTION_CODE_READ == 3
MODBUS_EXPECTED_LENGTH == 13
OFFLINE_THRESHOLD == 10
TEMPERATURE_SCALE == 10
TEMPERATURE_MIN == -55
TEMPERATURE_MAX == 125

\* ------------------------------------------------------------------------
\* Python integer operators on non-negative integers
\* ------------------------------------------------------------------------
RECURSIVE BitXor(_, _)
\* a ^ b
BitXor(a, b) ==
    IF a = 0 THEN b
    ELSE IF b = 0 THEN a
    ELSE (((a % 2) + (b % 2)) % 2) + 2 * BitXor(a \div 2, b \div 2)

\* a >> 1
ShiftRight1(a) == a \div 2

\* a & 1
BitAnd1(a) == a % 2

RECURSIVE Pow2(_)
Pow2(n) == IF n = 0 THEN 1 ELSE 2 * Pow2(n - 1)

\* int.from_bytes(b, 'little') and int.from_bytes(b, 'big')
RECURSIVE FromBytesLittle(_)
FromBytesLittle(b) ==
    IF b = <<>> THEN 0 ELSE Head(b) + (256 * FromBytesLittle(Tail(b)))

RECURSIVE FromBytesBig(_)
FromBytesBig(b) ==
    IF b = <<>> THEN 0
    ELSE (Head(b) * Pow2(8 * (Len(b) - 1))) + FromBytesBig(Tail(b))

\* data[lo:hi] for 0 <= lo, with Python's clamping of hi to len(data)
Slice(data, lo, hi) ==
    LET h == IF hi > Len(data) THEN Len(data) ELSE hi
    IN  IF h <= lo THEN <<>> ELSE SubSeq(data, lo + 1, h)

\* data[-2:] and data[:-2]
LastTwo(data) ==
    IF Len(data) <= 2 THEN data ELSE SubSeq(data, Len(data) - 1, Len(data))

AllButLastTwo(data) ==
    IF Len(data) <= 2 THEN <<>> ELSE SubSeq(data, 1, Len(data) - 2)

\* ------------------------------------------------------------------------
\* ModBusParser._calculate_crc16
\* ------------------------------------------------------------------------
CRC_INIT == 65535       \* 0xFFFF
CRC_POLY == 40961       \* 0xA001

\* The step with the polynomial never folded in.
CrcStepPlain(crc) == ShiftRight1(crc)

\* crc = (crc >> 1) ^ 0xA001 if crc & 1 else crc >> 1

CrcStep(crc) ==
    IF BitAnd1(crc) = 1 THEN BitXor(ShiftRight1(crc), CRC_POLY)
    ELSE ShiftRight1(crc)

\* for _ in range(8): ...
CrcByte(crc, byte) ==
    CrcStep(CrcStep(CrcStep(CrcStep(CrcStep(CrcStep(CrcStep(CrcStep(
        BitXor(crc, byte)))))))))

\* for byte in data: ...   (the loop over data[i..], crc the accumulator; the
\* test on crc has TLC evaluate the accumulator before the next iteration)
RECURSIVE CrcLoop(_, _, _)
CrcLoop(crc, data, i) ==
    IF crc >= 0 /\ i <= Len(data)
    THEN CrcLoop(CrcByte(crc, data[i]), data, i + 1)
    ELSE crc

_calculate_crc16(data) == CrcLoop(CRC_INIT, data, 1)

\* ------------------------------------------------------------------------
\* ModBusParser._is_valid_modbus
\* ------------------------------------------------------------------------
MIN_VALID_LENGTH == 5       \* "if len(data) < 5"
MIN_CRC_LENGTH == 4         \* "if len(data) >= 4"

\* The validator without its device address check.
IsValidModbusAnyAddress(data) ==
    IF Len(data) < MIN_VALID_LENGTH THEN FALSE
    ELSE IF data[2] # MODBUS_FUNCTION_CODE_READ THEN FALSE
    ELSE FromBytesLittle(LastTwo(data)) = _calculate_crc16(AllButLastTwo(data))

\* The validator comparing only the low byte of the CRC.
IsValidModbusLowCrc(data) ==
    IF Len(data) < MIN_VALID_LENGTH THEN FALSE
    ELSE IF ~(MODBUS_DEVICE_ADDR_MIN <= data[1]
              /\ data[1] <= MODBUS_DEVICE_ADDR_MAX) THEN FALSE
    ELSE IF data[2] # MODBUS_FUNCTION_CODE_READ THEN FALSE
    ELSE data[Len(data) - 1] = _calculate_crc16(AllButLastTwo(data)) % 256

_is_valid_modbus(data) ==
    IF Len(data) < MIN_VALID_LENGTH THEN FALSE
    ELSE LET device_addr == data[1]
             function_code == data[2]
         IN  IF ~(MODBUS_DEVICE_ADDR_MIN <= device_addr
                  /\ device_addr <= MODBUS_DEVICE_ADDR_MAX) THEN FALSE
             ELSE IF function_code # MODBUS_FUNCTION_CODE_READ THEN FALSE
             ELSE IF Len(data) >= MIN_CRC_LENGTH
                  THEN LET received_crc == FromBytesLittle(LastTwo(data))
                           calculated_crc ==
                               _calculate_crc16(AllButLastTwo(data))
                       IN  received_crc = calculated_crc
                  ELSE FALSE

\* ------------------------------------------------------------------------
\* ModBusParser._build_temperature_json
\* ------------------------------------------------------------------------
INT16_MAX == 32767
UINT16_MODULUS == 65536

\* The table with the second sentinel keyed 0x5500 instead of 0x0550.
ErrorCodesMiskeyed ==
    (32767 :> "sensor disconnected") @@ (21760 :> "sensor initialization failed")

\* ERROR_CODES of src/const.py; the two literals are Chinese texts, written
\* here by their meaning.
ERROR_CODES ==
    (32767 :> "sensor disconnected") @@ (1360 :> "sensor initialization failed")

\* error_message = ERROR_CODES.get(temp_raw); if error_message: ...
HasErrorMessage(temp_raw) ==
    temp_raw \in DOMAIN ERROR_CODES /\ ERROR_CODES[temp_raw] # ""

\* json.dumps / json.loads: the text is held as a value wrapped in a record,
\* so that a JSON text is never mistaken for the object it encodes.
JsonDumps(obj) == [json |-> obj]
JsonLoads(text) == text.json

\* datetime.now().isoformat(): the wall clock is not part of the state.
WallClock == "datetime.now()"

\* temp_signed = temp_raw - 65536 if temp_raw > 32767 else temp_raw
SignedOffByOne(temp_raw) ==
    IF temp_raw >= INT16_MAX THEN temp_raw - UINT16_MODULUS ELSE temp_raw

Signed(temp_raw) ==
    IF temp_raw > INT16_MAX THEN temp_raw - UINT16_MODULUS ELSE temp_raw

\* status = "normal" if TEMPERATURE_MIN <= temp_celsius <= TEMPERATURE_MAX
\*          else "error"                   (temp_celsius = tenths / 10.0)
RangeStatusNoLowerBound(tenths) ==
    IF tenths <= TEMPERATURE_MAX * TEMPERATURE_SCALE THEN "normal" ELSE "error"

RangeStatus(tenths) ==
    IF /\ TEMPERATURE_MIN * TEMPERATURE_SCALE <= tenths
       /\ tenths <= TEMPERATURE_MAX * TEMPERATURE_SCALE
    THEN "normal" ELSE "error"

\* if error_message: temperature["error_message"] = ...; ["status"] = "error"
WithError(temperature, temp_raw) ==
    IF HasErrorMessage(temp_raw)
    THEN ("error_message" :> ERROR_CODES[temp_raw]) @@
         [temperature EXCEPT !.status = "error"]
    ELSE temperature

_build_temperature_json(temp_raw) ==
    LET temp_signed == Signed(temp_raw)
        \* temp_signed / TEMPERATURE_SCALE, in tenths of a degree
        celsius_tenths == temp_signed
        \* temp_celsius * 9/5 + 32, in hundredths of a degree
        fahrenheit_hundredths == (temp_signed * 18) + 3200
        status == RangeStatus(celsius_tenths)
        temperature == [raw_value |-> temp_raw,
                        signed_value |-> temp_signed,
                        celsius |-> celsius_tenths,
                        fahrenheit |-> fahrenheit_hundredths,
                        status |-> status]
    IN  JsonDumps([device_type |-> "18B20",
                   temperature |-> WithError(temperature, temp_raw),
                   timestamp |-> WallClock])

\* ------------------------------------------------------------------------
\* ModBusParser._parse_modbus_response and ModBusParser.parse
\* ------------------------------------------------------------------------
MIN_DATA_LENGTH == 2        \* "if data_length < 2"
HEADER_LENGTH == 3          \* "3 + data_length", "data[3:5]"
REGISTER_END == 5           \* "data[3:5]"

Raised(exc) == [raised |-> exc]
Returned(value) == [returned |-> value]
IsRaised(outcome) == "raised" \in DOMAIN outcome

\* The response parser without its byte count checks.
ParseModbusResponseUnchecked(data) ==
    Returned(_build_temperature_json(
        FromBytesBig(Slice(data, HEADER_LENGTH, REGISTER_END))))

\* The response parser reading the register in little-endian order.
ParseModbusResponseLittle(data) ==
    LET function_code == data[2]
        data_length == data[3]
    IN  IF function_code # MODBUS_FUNCTION_CODE_READ THEN Raised("ValueError")
        ELSE IF data_length < MIN_DATA_LENGTH THEN Raised("ValueError")
        ELSE IF Len(data) < HEADER_LENGTH + data_length
             THEN Raised("ValueError")
        ELSE Returned(_build_temperature_json(
                 FromBytesLittle(Slice(data, HEADER_LENGTH, REGISTER_END))))

_parse_modbus_response(data) ==
    LET function_code == data[2]
        data_length == data[3]
    IN  IF function_code # MODBUS_FUNCTION_CODE_READ THEN Raised("ValueError")
        ELSE IF data_length < MIN_DATA_LENGTH THEN Raised("ValueError")
        ELSE IF Len(data) < HEADER_LENGTH + data_length
             THEN Raised("ValueError")
        ELSE LET register_data == Slice(data, HEADER_LENGTH, REGISTER_END)
                 temp_raw == FromBytesBig(register_data)
             IN  Returned(_build_temperature_json(temp_raw))

\* parse: None when validation fails or the response parser raises
parse(data) ==
    IF ~_is_valid_modbus(data) THEN None
    ELSE LET outcome == _parse_modbus_response(data)
         IN  IF IsRaised(outcome) THEN None ELSE outcome.returned

\* ------------------------------------------------------------------------
\* bytes.decode(encoding), strict.  A decoded text is a sequence of code
\* points.  The byte pairs each double-byte codec maps are those of the
\* CPython codec tables; the character a pair maps to is not modelled beyond
\* being one character that is not ASCII and whose lower case is not ASCII
\* either: it is held as a number above the Unicode range.
\* ------------------------------------------------------------------------
UNICODE_LIMIT == 1114112    \* 0x110000

DecodeError == [error |-> "UnicodeDecodeError"]
Decoded(text, encoding) == [str |-> text, encoding |-> encoding]
IsDecoded(outcome) == "str" \in DOMAIN outcome

\* The positions in starts, in increasing order.
Ordered(starts) ==
    LET rank == [i \in starts |-> Cardinality({j \in starts : j <= i})]
    IN  [k \in 1..Cardinality(starts) |-> CHOOSE i \in starts : rank[i] = k]

\* ---- utf-8 ----
IsCont(b) == 128 <= b /\ b <= 191

Utf8Len(b) ==
    IF b < 128 THEN 1
    ELSE IF 194 <= b /\ b <= 223 THEN 2
    ELSE IF 224 <= b /\ b <= 239 THEN 3
    ELSE IF 240 <= b /\ b <= 244 THEN 4
    ELSE 0

Utf8SecondOk(lead, b) ==
    IF lead = 224 THEN 160 <= b /\ b <= 191
    ELSE IF lead = 237 THEN 128 <= b /\ b <= 159
    ELSE IF lead = 240 THEN 144 <= b /\ b <= 191
    ELSE IF lead = 244 THEN 128 <= b /\ b <= 143
    ELSE IsCont(b)

\* A complete character starts at position i.
Utf8WellFormed(d, i) ==
    LET n == Utf8Len(d[i])
    IN  /\ n >= 1
        /\ i + n - 1 <= Len(d)
        /\ \A j \in (i + 1)..(i + n - 1) :
               IF j = i + 1 THEN Utf8SecondOk(d[i], d[j]) ELSE IsCont(d[j])

\* The continuation byte at position i belongs to a character before it.
Utf8Covered(d, i) ==
    \E j \in {i - 1, i - 2, i - 3} :
        j >= 1 /\ Utf8Len(d[j]) > i - j /\ Utf8WellFormed(d, j)

Utf8Valid(d) ==
    \A i \in 1..Len(d) :
        IF IsCont(d[i]) THEN Utf8Covered(d, i) ELSE Utf8WellFormed(d, i)

Utf8CodePoint(d, i) ==
    LET n == Utf8Len(d[i])
    IN  IF n = 1 THEN d[i]
        ELSE IF n = 2 THEN ((d[i] - 192) * 64) + (d[i + 1] - 128)
        ELSE IF n = 3
             THEN ((d[i] - 224) * 4096) + ((d[i + 1] - 128) * 64)
                  + (d[i + 2] - 128)
        ELSE ((d[i] - 240) * 262144) + ((d[i + 1] - 128) * 4096)
             + ((d[i + 2] - 128) * 64) + (d[i + 3] - 128)

Utf8Decode(d) ==
    IF ~Utf8Valid(d) THEN DecodeError
    ELSE IF \A i \in 1..Len(d) : d[i] < 128 THEN Decoded(d, "utf-8")
    ELSE LET at == Ordered({i \in 1..Len(d) : ~IsCont(d[i])})
         IN  Decoded([k \in 1..Len(at) |-> Utf8CodePoint(d, at[k])], "utf-8")

\* ---- gbk and gb2312 ----
\* <<first lead, last lead, the trail byte ranges mapped for those leads>>
GbkTable ==
    { <<129, 160, {<<64, 126>>, <<128, 254>>}>>,
      <<161, 161, {<<161, 254>>}>>,
      <<162, 162, {<<161, 170>>, <<177, 226>>, <<229, 238>>, <<241, 252>>}>>,
      <<163, 163, {<<161, 254>>}>>,
      <<164, 164, {<<161, 243>>}>>,
      <<165, 165, {<<161, 246>>}>>,
      <<166, 166, {<<161, 184>>, <<193, 216>>, <<224, 235>>, <<238, 242>>,
                   <<244, 245>>}>>,
      <<167, 167, {<<161, 193>>, <<209, 241>>}>>,
      <<168, 168, {<<64, 126>>, <<128, 149>>, <<161, 187>>, <<189, 190>>,
                   <<192, 192>>, <<197, 233>>}>>,
      <<169, 169, {<<64, 87>>, <<89, 90>>, <<92, 92>>, <<96, 126>>,
                   <<128, 136>>, <<150, 150>>, <<164, 239>>}>>,
      <<170, 175, {<<64, 126>>, <<128, 160>>}>>,
      <<176, 214, {<<64, 126>>, <<128, 254>>}>>,
      <<215, 215, {<<64, 126>>, <<128, 249>>}>>,
      <<216, 247, {<<64, 126>>, <<128, 254>>}>>,
      <<248, 253, {<<64, 126>>, <<128, 160>>}>>,
      <<254, 254, {<<64, 79>>}>> }

Gb2312Table ==
    { <<161, 161, {<<161, 254>>}>>,
      <<162, 162, {<<177, 226>>, <<229, 238>>, <<241, 252>>}>>,
      <<163, 163, {<<161, 254>>}>>,
      <<164, 164, {<<161, 243>>}>>,
      <<165, 165, {<<161, 246>>}>>,
      <<166, 166, {<<161, 184>>, <<193, 216>>}>>,
      <<167, 167, {<<161, 193>>, <<209, 241>>}>>,
      <<168, 168, {<<161, 186>>, <<197, 233>>}>>,
      <<169, 169, {<<164, 239>>}>>,
      <<176, 214, {<<161, 254>>}>>,
      <<215, 215, {<<161, 249>>}>>,
      <<216, 247, {<<161, 254>>}>> }

PairMapped(table, lead, trail) ==
    \E row \in table :
        /\ row[1] <= lead
        /\ lead <= row[2]
        /\ \E range \in row[3] : range[1] <= trail /\ trail <= range[2]

\* The decoder reads left to right, one byte below 0x80 or one pair at a
\* time, so a character starts at i exactly when the bytes of 0x80 and above
\* that run up to i - 1 are even in number.
HighRunBefore(d, i) ==
    LET low == {j \in 1..(i - 1) : d[j] < 128}
        last == IF low = {} THEN 0 ELSE CHOOSE j \in low : \A k \in low : k <= j
    IN  i - 1 - last

DbcsStarts(d) == {i \in 1..Len(d) : HighRunBefore(d, i) % 2 = 0}

DbcsChar(d, i) ==
    IF d[i] < 128 THEN d[i] ELSE UNICODE_LIMIT + (d[i] * 256) + d[i + 1]

DbcsDecode(table, d, encoding) ==
    LET starts == DbcsStarts(d)
    IN  IF \E i \in starts :
               d[i] >= 128 /\ ~(i + 1 <= Len(d) /\ PairMapped(table, d[i], d[i + 1]))
        THEN DecodeError
        ELSE IF \A i \in 1..Len(d) : d[i] < 128 THEN Decoded(d, encoding)
        ELSE LET at == Ordered(starts)
             IN  Decoded([k \in 1..Len(at) |-> DbcsChar(d, at[k])], encoding)

\* ---- ascii and latin1 ----
AsciiDecode(d) ==
    IF \A i \in 1..Len(d) : d[i] < 128 THEN Decoded(d, "ascii")
    ELSE DecodeError

Latin1Decode(d) == Decoded(d, "latin1")

\* ------------------------------------------------------------------------
\* UDPProtocol._try_decode_text
\* ------------------------------------------------------------------------
\* encodings = ['utf-8', 'gbk', 'gb2312', 'ascii', 'latin1']; the first that
\* decodes wins, None when none does
_try_decode_text(data) ==
    LET utf8 == Utf8Decode(data)
        gbk == DbcsDecode(GbkTable, data, "gbk")
        gb2312 == DbcsDecode(Gb2312Table, data, "gb2312")
        ascii == AsciiDecode(data)
        latin1 == Latin1Decode(data)
    IN  IF IsDecoded(utf8) THEN utf8
        ELSE IF IsDecoded(gbk) THEN gbk
        ELSE IF IsDecoded(gb2312) THEN gb2312
        ELSE IF IsDecoded(ascii) THEN ascii
        ELSE IF IsDecoded(latin1) THEN latin1
        ELSE None

\* "if text_data:" - neither None nor the empty string
TextTruthy(text_data) == IsDecoded(text_data) /\ text_data.str # <<>>

\* ------------------------------------------------------------------------
\* str.lower() and the "in" test on strings
\* ------------------------------------------------------------------------
\* lower() leaving every character as it is: defined below, before the
\* operator it stands in for.
\* The lower case of one character: A-Z, U+0130 (which lowers to two
\* characters, "i" and U+0307) and U+212A (KELVIN SIGN, which lowers to "k")
\* are the characters whose lower case involves ASCII; any other character
\* stands for its own lower case.
LowerCharIdentity(c) == <<c>>

LowerChar(c) ==
    IF 65 <= c /\ c <= 90 THEN <<c + 32>>
    ELSE IF c = 304 THEN <<105, 775>>
    ELSE IF c = 8490 THEN <<107>>
    ELSE <<c>>

Lower(text) ==
    LET dotted == {i \in 1..Len(text) : text[i] = 304}
    IN  IF dotted = {} THEN [i \in 1..Len(text) |-> LowerChar(text[i])[1]]
        ELSE LET offset == [i \in 1..Len(text) |->
                               i + Cardinality({j \in dotted : j < i})]
                 source == [m \in 1..(Len(text) + Cardinality(dotted)) |->
                               CHOOSE i \in 1..Len(text) :
                                   \/ offset[i] = m
                                   \/ (i \in dotted /\ offset[i] + 1 = m)]
             IN  [m \in 1..(Len(text) + Cardinality(dotted)) |->
                     LowerChar(text[source[m]])[m - offset[source[m]] + 1]]

\* indicator in text
Contains(text, indicator) ==
    \E i \in 1..(Len(text) - Len(indicator) + 1) :
        \A j \in 1..Len(indicator) : text[i + j - 1] = indicator[j]

\* HEARTBEAT_INDICATORS and REGISTRATION_INDICATORS of src/const.py
HEARTBEAT_INDICATORS ==
    { <<104, 101, 97, 114, 116, 98, 101, 97, 116>>,         \* 'heartbeat'
      <<112, 105, 110, 103>>,                               \* 'ping'
      <<97, 108, 105, 118, 101>>,                           \* 'alive'
      <<107, 101, 101, 112, 45, 97, 108, 105, 118, 101>>,   \* 'keep-alive'
      <<104, 101, 97, 114, 116, 95, 98, 101, 97, 116>>,     \* 'heart_beat'
      <<107, 101, 101, 112, 97, 108, 105, 118, 101>> }      \* 'keepalive'

REGISTRATION_INDICATORS ==
    { <<114, 101, 103, 105, 115, 116, 101, 114>>,                   \* 'register'
      <<114, 101, 103, 105, 115, 116, 114, 97, 116, 105, 111, 110>>, \* 'registration'
      <<99, 111, 110, 110, 101, 99, 116>>,                          \* 'connect'
      <<108, 111, 103, 105, 110>>,                                  \* 'login'
      <<100, 101, 118, 105, 99, 101, 95, 105, 110, 102, 111>>,      \* 'device_info'
      <<99, 108, 105, 101, 110, 116, 95, 105, 110, 102, 111>> }     \* 'client_info'

\* any(indicator in data_lower for indicator in indicators)
AnyIndicator(data, indicators) ==
    LET data_lower == Lower(data)
    IN  \E indicator \in indicators : Contains(data_lower, indicator)

\* UDPProtocol._is_text_packet
_is_text_packet(data) ==
    AnyIndicator(data, HEARTBEAT_INDICATORS \cup REGISTRATION_INDICATORS)

\* ------------------------------------------------------------------------
\* UDPProtocol: the client table and the event bus.  Each handler is an
\* operator from the state it reads (the client table, the events fired so
\* far by the operation, the loop time) to the state it leaves.
\* ------------------------------------------------------------------------
EVENT_NAME == "temp_udp_receiver_event"     \* f'{DOMAIN}_event'
HEARTBEAT_DATA_LIMIT == 100                 \* data[:100]

Effect(clients, fired) == [known_clients |-> clients, bus |-> fired]

\* hass.bus.async_fire(f'{DOMAIN}_event', event_data).  listener_view is the
\* client table as it is when the event is fired: what a listener called
\* from async_fire finds when it queries the status.
AsyncFire(fired, event_data, clients) ==
    Append(fired, [name |-> EVENT_NAME, data |-> event_data,
                   listener_view |-> clients])

\* The assignment rebuilding the table around the record written.
DictSetAlone(clients, addr, client_info) ==
    [a \in {addr} |-> client_info]

\* known_clients[addr] = client_info
DictSet(clients, addr, client_info) ==
    [a \in (DOMAIN clients) \cup {addr} |->
        IF a = addr THEN client_info ELSE clients[a]]

NoExtra == [a \in {} |-> a]     \* extra_data = None

\* The client_info dict _update_client_status builds: last_seen and type,
\* then the extra data, then the stamp of this kind
ClientInfo(client_type, extra_data, current_time) ==
    LET stamp == IF client_type = "heartbeat"
                 THEN "last_heartbeat" :> current_time
                 ELSE IF client_type = "registration"
                 THEN "last_registration" :> current_time
                 ELSE NoExtra
    IN  stamp @@ extra_data @@
        [last_seen |-> current_time, type |-> client_type]

\* The record call that keeps the last_seen of a record that exists.
UpdateClientStatusKeepingLastSeen(clients, addr, client_type, extra_data, current_time) ==
    DictSet(clients, addr,
            ClientInfo(client_type, extra_data,
                       IF addr \in DOMAIN clients THEN clients[addr].last_seen
                       ELSE current_time))

\* UDPProtocol._update_client_status: the record of addr is replaced by the
\* new client_info
_update_client_status(clients, addr, client_type, extra_data, current_time) ==
    DictSet(clients, addr, ClientInfo(client_type, extra_data, current_time))

\* UDPProtocol._fire_event
_fire_event(clients, fired, event_type, event_data, current_time) ==
    AsyncFire(fired,
              ("event_type" :> event_type) @@
              ("timestamp" :> current_time) @@ event_data,
              clients)

\* UDPProtocol._handle_temperature_data
_handle_temperature_data(clients, fired, temp_json, addr, current_time) ==
    LET temp_data_obj == JsonLoads(temp_json)
    IN  IF "temperature" \notin DOMAIN temp_data_obj
        THEN Effect(clients, fired)
        ELSE LET temp_data == temp_data_obj.temperature
                 event_data ==
                     [event_type |-> "temperature_data_received",
                      temperature_data |-> temp_data,
                      timestamp |-> temp_data_obj.timestamp,
                      source_addr |-> addr,
                      device_type |-> temp_data_obj.device_type]
                 updated == _update_client_status(clients, addr,
                                "temperature_sensor", NoExtra, current_time)
             IN  Effect(updated, AsyncFire(fired, event_data, updated))

\* The heartbeat handler firing its event before it writes the record.
HandleHeartbeatFiringFirst(clients, fired, data, addr, current_time) ==
    Effect(_update_client_status(clients, addr, "heartbeat", NoExtra,
                                 current_time),
           _fire_event(clients, fired, "device_heartbeat",
                       [device_addr |-> addr,
                        heartbeat_data |-> Slice(data, 0, HEARTBEAT_DATA_LIMIT)],
                       current_time))

\* UDPProtocol._handle_heartbeat
_handle_heartbeat(clients, fired, data, addr, current_time) ==
    LET updated == _update_client_status(clients, addr, "heartbeat", NoExtra,
                                         current_time)
    IN  Effect(updated,
               _fire_event(updated, fired, "device_heartbeat",
                           [device_addr |-> addr,
                            heartbeat_data |->
                                Slice(data, 0, HEARTBEAT_DATA_LIMIT)],
                           current_time))

\* UDPProtocol._handle_registration
_handle_registration(clients, fired, data, addr, current_time) ==
    LET updated == _update_client_status(clients, addr, "registration",
                       [registration_data |-> data], current_time)
    IN  Effect(updated,
               _fire_event(updated, fired, "device_registered",
                           [device_addr |-> addr, registration_data |-> data],
                           current_time))

\* The conditions datagram_received and _handle_text_packet evaluate on data
Conditions(data) ==
    LET text_data == _try_decode_text(data)
        is_text == TextTruthy(text_data)
    IN  [valid |-> _is_valid_modbus(data),
         parsed_data |-> parse(data),
         text_data |-> text_data,
         is_text_packet |-> is_text /\ _is_text_packet(text_data.str),
         is_heartbeat |->
             is_text /\ AnyIndicator(text_data.str, HEARTBEAT_INDICATORS),
         is_registration |->
             is_text /\ AnyIndicator(text_data.str, REGISTRATION_INDICATORS)]

\* The text handler testing the registration indicators first.
HandleTextPacketRegistrationFirst(clients, fired, cond, data, addr, current_time) ==
    IF cond.is_registration
    THEN _handle_registration(clients, fired, data, addr, current_time)
    ELSE IF cond.is_heartbeat
    THEN _handle_heartbeat(clients, fired, data, addr, current_time)
    ELSE Effect(clients, fired)

\* UDPProtocol._handle_text_packet
_handle_text_packet(clients, fired, cond, data, addr, current_time) ==
    IF cond.is_heartbeat
    THEN _handle_heartbeat(clients, fired, data, addr, current_time)
    ELSE IF cond.is_registration
    THEN _handle_registration(clients, fired, data, addr, current_time)
    ELSE Effect(clients, fired)

\* The dispatcher writing a record for every datagram, recognized or not.
DatagramEffectRecordingAll(clients, cond, addr, current_time) ==
    IF cond.parsed_data # None
    THEN _handle_temperature_data(clients, <<>>, cond.parsed_data, addr,
                                  current_time)
    ELSE IF cond.is_text_packet
    THEN _handle_text_packet(clients, <<>>, cond, cond.text_data.str, addr,
                             current_time)
    ELSE Effect(_update_client_status(clients, addr, "unknown", NoExtra,
                                      current_time), <<>>)

\* UDPProtocol.datagram_received.  _analyze_unknown_packet only logs.
\* Nothing in the try block raises but _parse_modbus_response, which parse
\* catches.
DatagramEffect(clients, cond, addr, current_time) ==
    IF cond.parsed_data # None
    THEN _handle_temperature_data(clients, <<>>, cond.parsed_data, addr,
                                  current_time)
    ELSE IF cond.is_text_packet
    THEN _handle_text_packet(clients, <<>>, cond, cond.text_data.str, addr,
                             current_time)
    ELSE Effect(clients, <<>>)

\* json.loads(data.decode('utf-8')) in _analyze_unknown_packet: the decoder
\* raises on bytes that are not utf-8; what json.loads does with the text is
\* left open, its exception being swallowed like the decoder's.
JsonProbe(data) ==
    IF Utf8Valid(data) THEN {Returned(None), Raised("JSONDecodeError")}
    ELSE {Raised("UnicodeDecodeError")}

\* UDPProtocol._analyze_unknown_packet: logs, and swallows what its probes
\* raise (bare except)
_analyze_unknown_packet(data) ==
    IF Len(data) = 0 THEN Returned(None)
    ELSE IF \A probe \in JsonProbe(data) :
                IsRaised(probe) \/ probe = Returned(None)
    THEN Returned(None)
    ELSE Raised("Exception")

\* The try block of datagram_received, and its except Exception clause
DatagramOutcome(cond, data) ==
    LET body == IF cond.parsed_data # None THEN Returned(None)
                ELSE IF cond.is_text_packet THEN Returned(None)
                ELSE _analyze_unknown_packet(data)
    IN  IF IsRaised(body) THEN Returned(None) ELSE body

\* The snapshot counting a client as online up to and including the
\* threshold.
ClientStatusInclusive(clients, current_time) ==
    [addr \in DOMAIN clients |->
        LET last_seen == clients[addr].last_seen
            offline_duration == current_time - last_seen
        IN  [type |-> clients[addr].type,
             last_seen |-> last_seen,
             online |-> offline_duration <= OFFLINE_THRESHOLD * 10,
             offline_duration |-> offline_duration]]

\* UDPProtocol.get_client_status; the loop time is held in tenths of a second
TICKS_PER_SECOND == 10
ClientStatus(clients, current_time) ==
    [addr \in DOMAIN clients |->
        LET last_seen == clients[addr].last_seen
            offline_duration == current_time - last_seen
        IN  [type |-> clients[addr].type,
             last_seen |-> last_seen,
             online |-> offline_duration < OFFLINE_THRESHOLD * TICKS_PER_SECOND,
             offline_duration |-> offline_duration]]

\* ------------------------------------------------------------------------
\* Initial state (after UDPProtocol.__init__)
\* ------------------------------------------------------------------------
Idle == [op |-> "none"]

Init ==
    /\ NoLifecycle
    /\ known_clients = <<>>
    /\ now = 0
    /\ bus = <<>>
    /\ call = Idle

\* A call of a pure function: entered with its argument, then returned.
Entered(op, arg) == [op |-> op, pc |-> "entered", arg |-> arg]
HasReturned(op) == call.op = op /\ call.pc = "returned"

\* ------------------------------------------------------------------------
\* The CRC16 engine on its own: _calculate_crc16 over byte sequences
\* ------------------------------------------------------------------------
MaxCrcLen == 4
CrcAlphabet == {0, 1, 3, 128, 255}

RECURSIVE SeqsUpTo(_, _)
SeqsUpTo(S, n) ==
    IF n = 0 THEN {<<>>}
    ELSE LET shorter == SeqsUpTo(S, n - 1)
         IN  shorter \cup {Append(s, x) : s \in shorter, x \in S}

\* "123456789"
CheckString == <<49, 50, 51, 52, 53, 54, 55, 56, 57>>

CrcInputs == SeqsUpTo(CrcAlphabet, MaxCrcLen) \cup {CheckString, <<1, 3, 2>>}

InitCrc ==
    /\ NoLifecycle
    /\ known_clients = <<>>
    /\ now = 0
    /\ bus = <<>>
    /\ call \in {Entered("_calculate_crc16", d) : d \in CrcInputs}

CalculateCrc16 ==
    /\ call.op = "_calculate_crc16"
    /\ call.pc = "entered"
    /\ call' = [op |-> call.op, pc |-> "returned", arg |-> call.arg,
                result |-> _calculate_crc16(call.arg)]
    /\ UNCHANGED <<known_clients, now, bus, lifecycle>>

NextCrc == CalculateCrc16

SpecCrc == InitCrc /\ [][NextCrc]_vars

\* The reference ModBus CRC16, on the register held as the set of its one
\* bits: XOR is the symmetric difference, a right shift lowers every bit
\* position by one and drops bit 0.
BitsOf(n) == {i \in 0..15 : (n \div Pow2(i)) % 2 = 1}

RECURSIVE ValueOf(_)
ValueOf(S) ==
    IF S = {} THEN 0
    ELSE LET i == CHOOSE x \in S : TRUE IN Pow2(i) + ValueOf(S \ {i})

SymDiff(A, B) == (A \ B) \cup (B \ A)
RefShift(S) == {i - 1 : i \in S \ {0}}
RefPoly == {0, 13, 15}
RefStep(S) == IF 0 \in S THEN SymDiff(RefShift(S), RefPoly) ELSE RefShift(S)

RECURSIVE RefSteps(_, _)
RefSteps(S, n) ==
    IF S \subseteq 0..15 /\ n > 0 THEN RefSteps(RefStep(S), n - 1) ELSE S

RECURSIVE RefLoop(_, _, _)
RefLoop(S, data, i) ==
    IF S \subseteq 0..15 /\ i <= Len(data)
    THEN RefLoop(RefSteps(SymDiff(S, BitsOf(data[i])), 8), data, i + 1)
    ELSE S

RefCrc16(data) == ValueOf(RefLoop(0..15, data, 1))

\* C6: for every byte sequence, the empty one included, _calculate_crc16
\* returns a value in 0..65535 that equals the reference ModBus CRC16; the
\* empty sequence gives 0xFFFF and "123456789" gives the check value 0x4B37.
C6_CrcMatchesReference ==
    HasReturned("_calculate_crc16") =>
        /\ call.result \in 0..65535
        /\ call.result = RefCrc16(call.arg)
        /\ (call.arg = <<>> => call.result = 65535)
        /\ (call.arg = CheckString => call.result = 19255)

C6_Witness ==
    /\ HasReturned("_calculate_crc16")
    /\ call.arg = CheckString
    /\ call.result = 19255

\* ------------------------------------------------------------------------
\* The temperature decoder on its own: _build_temperature_json over every
\* 16-bit register value
\* ------------------------------------------------------------------------
UINT16_MAX == 65535

InitReading ==
    /\ NoLifecycle
    /\ known_clients = <<>>
    /\ now = 0
    /\ bus = <<>>
    /\ call \in {Entered("_build_temperature_json", r) : r \in 0..UINT16_MAX}

BuildTemperatureJson ==
    /\ call.op = "_build_temperature_json"
    /\ call.pc = "entered"
    /\ call' = [op |-> call.op, pc |-> "returned", arg |-> call.arg,
                result |-> _build_temperature_json(call.arg)]
    /\ UNCHANGED <<known_clients, now, bus, lifecycle>>

NextReading == BuildTemperatureJson

SpecReading == InitReading /\ [][NextReading]_vars

\* The reading of the returned _build_temperature_json call.
ReadingOf(c) == JsonLoads(c.result).temperature

\* C7: for every raw register value r in 0..65535, signed_value is r - 65536
\* when r > 32767 and r otherwise; it lies in -32768..32767, is congruent to
\* r modulo 65536, and celsius in tenths of a degree equals signed_value;
\* raw 0xFF38 gives signed_value -200 and celsius -20.0.
C7_SignedDecoding ==
    HasReturned("_build_temperature_json") =>
        LET r == call.arg
            t == ReadingOf(call)
        IN  /\ t.raw_value = r
            /\ t.signed_value = (IF r > 32767 THEN r - 65536 ELSE r)
            /\ t.signed_value \in -32768..32767
            /\ (t.signed_value - r) % 65536 = 0
            /\ t.celsius = t.signed_value
            /\ (r = 65336 => t.signed_value = -200 /\ t.celsius = -200)

C7_Witness ==
    /\ HasReturned("_build_temperature_json")
    /\ call.arg = 65336
    /\ ReadingOf(call).signed_value = -200

\* C8: for every raw value the reading has status error when celsius is
\* outside [-55.0, 125.0] or the raw value is a sentinel (0x7FFF, 0x0550), and
\* status normal in every other case; no other status is produced.
C8_StatusInvariant ==
    HasReturned("_build_temperature_json") =>
        LET r == call.arg
            t == ReadingOf(call)
            outside == t.celsius < -550 \/ t.celsius > 1250
            sentinel == r \in {32767, 1360}
        IN  /\ t.status \in {"normal", "error"}
            /\ (t.status = "error") <=> (outside \/ sentinel)

C8_Witness ==
    /\ HasReturned("_build_temperature_json")
    /\ call.arg = 65535 - 550
    /\ ReadingOf(call).status = "error"

\* C9: a reading carries an error_message if and only if its raw value is
\* 0x7FFF or 0x0550; the message is non-empty, is a different one for each
\* sentinel, and always comes with status error.
C9_ErrorSentinelMapping ==
    HasReturned("_build_temperature_json") =>
        LET r == call.arg
            t == ReadingOf(call)
        IN  /\ ("error_message" \in DOMAIN t) <=> (r \in {32767, 1360})
            /\ "error_message" \in DOMAIN t =>
                   /\ t.error_message # ""
                   /\ t.status = "error"
                   /\ (r = 32767 <=> t.error_message = "sensor disconnected")
                   /\ (r = 1360 <=>
                           t.error_message = "sensor initialization failed")

C9_Witness ==
    /\ HasReturned("_build_temperature_json")
    /\ call.arg = 1360
    /\ "error_message" \in DOMAIN ReadingOf(call)
    /\ ReadingOf(call).status = "error"

\* ------------------------------------------------------------------------
\* The frame validator and parser on their own: ModBusParser.parse over
\* frames a sender builds, over the same frames with one bit flipped in
\* transit, and over arbitrary short buffers
\* ------------------------------------------------------------------------
MaxPayload == 3             \* bytes between the header and the CRC
MaxRawLen == 5              \* length of the arbitrary buffers

\* What a sender puts on the wire: the body followed by its CRC16, low byte
\* first.
BuildFrame(body) ==
    LET crc == _calculate_crc16(body)
    IN  body \o <<crc % 256, crc \div 256>>

RegisterSamples == {0, 200, 1360, 32767, 65336}
SenderAddresses == {0, 1, 247, 248}
SenderFunctions == {3, 4}
SenderByteCounts == {0, 1, 2, 4, 255}
PayloadBytes == {0, 200}
RawBytes == {0, 3, 255}

\* [a, 0x03, 0x02, hi, lo] + CRC for every one-byte address a
RoundTripFrames ==
    {BuildFrame(<<a, 3, 2, r \div 256, r % 256>>) :
        a \in 0..255, r \in RegisterSamples}

SenderFrames ==
    {BuildFrame(<<a, f, bc>> \o p) :
        a \in SenderAddresses, f \in SenderFunctions,
        bc \in SenderByteCounts, p \in SeqsUpTo(PayloadBytes, MaxPayload)}

RawBuffers == SeqsUpTo(RawBytes, MaxRawLen)

FrameInputs == RoundTripFrames \cup SenderFrames \cup RawBuffers

\* One bit of the buffer inverted in transit: bit k of byte i.
FlipBit(data, i, k) == [data EXCEPT ![i] = BitXor(data[i], Pow2(k))]

InitFrame ==
    /\ NoLifecycle
    /\ known_clients = <<>>
    /\ now = 0
    /\ bus = <<>>
    /\ call \in {[op |-> "parse", pc |-> "entered", arg |-> d,
                  tampered |-> FALSE] : d \in FrameInputs}

\* ModBusParser.parse(data)
Parse ==
    /\ call.op = "parse"
    /\ call.pc = "entered"
    /\ call' = [op |-> "parse", pc |-> "returned", arg |-> call.arg,
                tampered |-> call.tampered,
                valid |-> _is_valid_modbus(call.arg),
                result |-> parse(call.arg)]
    /\ UNCHANGED <<known_clients, now, bus, lifecycle>>

\* A frame the validator accepted arrives again with one bit flipped and the
\* CRC not recomputed.
ParseTampered ==
    /\ call.op = "parse"
    /\ call.pc = "returned"
    /\ ~call.tampered
    /\ call.valid
    /\ call.arg \in SenderFrames
    /\ \E i \in 1..Len(call.arg), k \in 0..7 :
           call' = [op |-> "parse", pc |-> "entered",
                    arg |-> FlipBit(call.arg, i, k), tampered |-> TRUE]
    /\ UNCHANGED <<known_clients, now, bus, lifecycle>>

NextFrame == Parse \/ ParseTampered

SpecFrame == InitFrame /\ [][NextFrame]_vars

\* C3: a buffer is accepted as a valid frame only if its first byte is in
\* 0..247, its second byte is 0x03 and its last two bytes, read little-endian,
\* equal the CRC16 of the bytes before them; parse yields a reading only for
\* an accepted buffer.
C3_ValidOnlyIfAllChecks ==
    HasReturned("parse") =>
        /\ call.valid =>
               /\ Len(call.arg) >= 2
               /\ call.arg[1] \in 0..247
               /\ call.arg[2] = 3
               /\ FromBytesLittle(LastTwo(call.arg)) =
                      RefCrc16(AllButLastTwo(call.arg))
        /\ call.result # None => call.valid

C3_Witness ==
    /\ HasReturned("parse")
    /\ call.valid
    /\ call.arg[1] = 247

\* The frame [a, 0x03, 0x02, hi, lo] followed by the reference CRC16 of
\* those five bytes, low byte first.
IsRoundTripFrame(d) ==
    /\ Len(d) = 7
    /\ d[1] \in 0..247
    /\ d[2] = 3
    /\ d[3] = 2
    /\ FromBytesLittle(LastTwo(d)) = RefCrc16(AllButLastTwo(d))

\* C4: for every address a in 0..247 and register value r, the frame
\* [a, 0x03, 0x02, r div 256, r mod 256] + CRC validates and decodes to
\* raw_value = r; the frame of address 1 and register bytes [0x00, 0xC8]
\* decodes to celsius 20.0 with status normal.
C4_FrameRoundTrip ==
    (HasReturned("parse") /\ IsRoundTripFrame(call.arg)) =>
        /\ call.valid
        /\ call.result # None
        /\ ReadingOf(call).raw_value = (call.arg[4] * 256) + call.arg[5]
        /\ call.arg = <<1, 3, 2, 0, 200, 185, 210>> =>
               /\ ReadingOf(call).celsius = 200
               /\ ReadingOf(call).status = "normal"

C4_Witness ==
    /\ HasReturned("parse")
    /\ call.arg = <<1, 3, 2, 0, 200, 185, 210>>
    /\ call.result # None
    /\ ReadingOf(call).celsius = 200

\* C5: a valid frame with any single bit flipped and the CRC not recomputed
\* is rejected by the validator.
C5_SingleBitFlipRejected ==
    (HasReturned("parse") /\ call.tampered) =>
        /\ ~call.valid
        /\ call.result = None

C5_Witness ==
    /\ HasReturned("parse")
    /\ call.tampered
    /\ Len(call.arg) = 7
    /\ call.arg[4] = 128
    /\ ~call.valid

\* ------------------------------------------------------------------------
\* The protocol: datagrams arrive from the sources, the loop time advances,
\* the status is queried
\* ------------------------------------------------------------------------
Addresses == {"10.0.0.1:5000", "10.0.0.2:5000"}

\* The instants the loop time takes, in tenths of a second.
Instants == {0, 99, 100}

\* Binary frames: well-formed readings, then frames whose header or byte
\* count is off, with a correct CRC unless said otherwise.
FrameNormal == BuildFrame(<<1, 3, 2, 0, 200>>)
FrameProfile == BuildFrame(<<1, 3, 8, 0, 200, 0, 0, 0, 0, 0, 0>>)
FrameSentinel == BuildFrame(<<1, 3, 2, 127, 255>>)
FrameNegative == BuildFrame(<<247, 3, 2, 255, 56>>)
FrameHeaderOnly == BuildFrame(<<0, 3, 2>>)
FrameCountFour == BuildFrame(<<1, 3, 4, 0, 200>>)
FrameCountFive == BuildFrame(<<1, 3, 5, 0, 200>>)
FrameCountMax == BuildFrame(<<1, 3, 255, 0, 200>>)
FrameCountOne == BuildFrame(<<1, 3, 1, 0>>)
\* byte count 0 and the text "ping"
FrameCountZeroPing == BuildFrame(<<9, 3, 0, 112, 105, 110, 103>>)
\* byte count 1 and the text "login"
FrameCountOneLogin == BuildFrame(<<1, 3, 1, 108, 111, 103, 105, 110>>)
FrameBadCrc == <<1, 3, 2, 0, 200, 0, 0>>
FrameAddress248 == BuildFrame(<<248, 3, 2, 0, 200>>)
FrameFunction4 == BuildFrame(<<1, 4, 2, 0, 200>>)

BinaryDatagrams ==
    { FrameNormal, FrameProfile, FrameSentinel, FrameNegative,
      FrameHeaderOnly, FrameCountFour, FrameCountFive, FrameCountMax,
      FrameCountOne, FrameCountZeroPing, FrameCountOneLogin, FrameBadCrc,
      FrameAddress248, FrameFunction4,
      <<>>, <<1>>, <<1, 3, 2, 0>> }

TextDatagrams ==
    { <<104, 101, 97, 114, 116, 98, 101, 97, 116>>,         \* "heartbeat"
      <<72, 69, 65, 82, 84, 66, 69, 65, 84, 32, 102, 114, 111, 109, 32,
        100, 101, 118, 105, 99, 101, 32, 65>>,  \* "HEARTBEAT from device A"
      <<114, 101, 103, 105, 115, 116, 101, 114>>,           \* "register"
      <<67, 79, 78, 78, 69, 67, 84>>,                       \* "CONNECT"
      <<108, 111, 103, 105, 110, 32, 112, 105, 110, 103>>,  \* "login ping"
      <<104, 101, 108, 108, 111>>,                          \* "hello"
      \* U+212A "eepalive" in utf-8
      <<226, 132, 170, 101, 101, 112, 97, 108, 105, 118, 101>>,
      \* two gbk characters, then " ping"
      <<208, 196, 204, 248, 32, 112, 105, 110, 103>>,
      \* 0x81 "ping": gbk reads 0x81 0x70 as one character
      <<129, 112, 105, 110, 103>>,
      \* 0xFF "ping": only latin1 decodes it
      <<255, 112, 105, 110, 103>> }

Datagrams == BinaryDatagrams \cup TextDatagrams

\* The conditions on each datagram, held as a table so that the parser and
\* the decoder are evaluated once per datagram.
ConditionsOf == [d \in Datagrams |-> Conditions(d)]

\* datagram_received(data, addr)
DatagramReceived ==
    \E data \in Datagrams, addr \in Addresses :
        LET cond == ConditionsOf[data]
            effect == DatagramEffect(known_clients, cond, addr, now)
        IN  /\ known_clients' = effect.known_clients
            /\ bus' = effect.bus
            /\ call' = [op |-> "datagram_received", pc |-> "returned",
                        data |-> data, addr |-> addr,
                        valid |-> cond.valid,
                        parsed_data |-> cond.parsed_data,
                        outcome |-> DatagramOutcome(cond, data)]
            /\ UNCHANGED <<now, lifecycle>>

\* What the caller of get_client_status holds: the result, and the result of
\* its previous call when no datagram has been handled since (repeated).
StatusCall(result) ==
    LET repeated == call.op = "get_client_status"
    IN  [op |-> "get_client_status", pc |-> "returned",
         result |-> result,
         repeated |-> repeated,
         previous |-> IF repeated THEN call.result ELSE <<>>]

\* The query counted as activity of every client.
GetClientStatusTouching ==
    /\ call' = StatusCall(ClientStatus(known_clients, now))
    /\ bus' = <<>>
    /\ known_clients' = [a \in DOMAIN known_clients |->
                            [known_clients[a] EXCEPT !.last_seen = now]]
    /\ UNCHANGED <<now, lifecycle>>

\* get_client_status()
GetClientStatus ==
    /\ call' = StatusCall(ClientStatus(known_clients, now))
    /\ bus' = <<>>
    /\ UNCHANGED <<known_clients, now, lifecycle>>

\* The loop time advances between two operations.
Tick ==
    /\ \E t \in Instants : t > now /\ now' = t
    /\ UNCHANGED <<known_clients, bus, call, lifecycle>>

Next == DatagramReceived \/ GetClientStatus \/ Tick

Spec == Init /\ [][Next]_vars

\* The events of the given type fired by the most recent operation.
Fired(event_type) ==
    {i \in 1..Len(bus) : bus[i].data.event_type = event_type}

\* ------------------------------------------------------------------------
\* Claims on the dispatcher
\* ------------------------------------------------------------------------

\* C1: a datagram that passes _is_valid_modbus never reaches the text
\* classifier: handling it fires no device_heartbeat and no
\* device_registered event.  The code falls through to the text branch
\* whenever parse returns None, which it does for a valid frame whose byte
\* count is below 2; the statement is violated.
C1_ValidFrameNeverClassifiedAsText ==
    (call.op = "datagram_received" /\ call.valid) =>
        /\ Fired("device_heartbeat") = {}
        /\ Fired("device_registered") = {}

\* C2: a datagram shorter than MODBUS_EXPECTED_LENGTH (13 bytes) is rejected
\* by the validator and yields neither a reading nor a
\* temperature_data_received event.  The validator rejects below 5 bytes
\* only; the statement is violated.
C2_ShorterThanExpectedLengthRejected ==
    (call.op = "datagram_received"
        /\ Len(call.data) < MODBUS_EXPECTED_LENGTH) =>
        /\ ~call.valid
        /\ call.parsed_data = None
        /\ Fired("temperature_data_received") = {}

\* The byte count (byte 2) is below 2 or exceeds the bytes after the header.
ByteCountOutOfBounds(data) ==
    /\ Len(data) >= HEADER_LENGTH
    /\ \/ data[3] < MIN_DATA_LENGTH
       \/ data[3] > Len(data) - HEADER_LENGTH

\* C10: a datagram with valid address, function code and CRC whose byte
\* count is below 2 or larger than the number of bytes after the 3-byte
\* header yields no reading: parse returns None (the ValueError is caught),
\* no temperature_data_received event is fired and datagram_received
\* returns.
C10_ByteCountConstraint ==
    (call.op = "datagram_received" /\ call.valid
        /\ ByteCountOutOfBounds(call.data)) =>
        /\ call.parsed_data = None
        /\ Fired("temperature_data_received") = {}
        /\ call.pc = "returned"

\* A frame declaring 255 bytes after a 4-byte remainder has been handled,
\* and so has one declaring none.
C10_Witness ==
    /\ call.op = "datagram_received"
    /\ call.data \in {FrameCountMax, FrameCountZeroPing}
    /\ call.valid
    /\ ByteCountOutOfBounds(call.data)
    /\ Fired("temperature_data_received") = {}

\* C11: datagram_received returns normally for every datagram and source
\* address; handling the empty buffer fires no event and leaves the client
\* table as it was.
C11_Totality ==
    /\ [](call.op = "datagram_received" =>
            call.pc = "returned" /\ ~IsRaised(call.outcome))
    /\ [][(call'.op = "datagram_received" /\ call'.data = <<>>) =>
            (known_clients' = known_clients /\ bus' = <<>>)]_vars

\* The empty buffer has arrived from a source while the table held a record
\* of another source, and from a source that has a record of its own.
C11_Witness ==
    /\ call.op = "datagram_received"
    /\ call.data = <<>>
    /\ ~IsRaised(call.outcome)
    /\ bus = <<>>
    /\ known_clients # <<>>
    /\ call.addr \in DOMAIN known_clients

\* ------------------------------------------------------------------------
\* Claims on the client table
\* ------------------------------------------------------------------------

\* A step of datagram_received: the only steps that leave call at a
\* datagram without moving the loop time.
DatagramStep == call'.op = "datagram_received" /\ now' = now

\* C12: after datagram_received has handled a datagram from an address,
\* whatever its classification, the client table holds a record of that
\* address whose last_seen is the time of the datagram.  The code writes the
\* record only in the temperature, heartbeat and registration handlers; an
\* unrecognized datagram leaves the table alone and the statement is
\* violated.
C12_EveryDatagramRecorded ==
    [][DatagramStep =>
        /\ call'.addr \in DOMAIN known_clients'
        /\ known_clients'[call'.addr].last_seen = now']_vars

\* The stamp of a record that has it is kept, and not lowered, by the step.
StampKept(stamp) ==
    \A a \in DOMAIN known_clients :
        stamp \in DOMAIN known_clients[a] =>
            /\ a \in DOMAIN known_clients'
            /\ stamp \in DOMAIN known_clients'[a]
            /\ known_clients'[a][stamp] >= known_clients[a][stamp]

\* C13: once the record of an address has last_heartbeat (last_registration)
\* set, every later write of that record keeps the stamp, not smaller than
\* before.  _update_client_status builds a new record holding only the stamp
\* of the kind being written and assigns it over the old one, so a
\* temperature reading or a registration after a heartbeat drops
\* last_heartbeat; the statement is violated.
C13_StampsAreRatchets ==
    [][StampKept("last_heartbeat") /\ StampKept("last_registration")]_vars

\* ------------------------------------------------------------------------
\* get_client_status on tables written at any time before the query
\* ------------------------------------------------------------------------
MaxNow == 120       \* the latest query time, in tenths of a second

StatusKinds == {"temperature_sensor", "heartbeat"}

\* The table after one record call, and after a second one for another
\* source.
OneClient(kind, t) ==
    _update_client_status(<<>>, "10.0.0.1:5000", kind, NoExtra, t)
TwoClients(kind, t1, t2) ==
    _update_client_status(OneClient(kind, t1), "10.0.0.2:5000",
                          "registration", [registration_data |-> <<>>], t2)

InitStatus ==
    /\ NoLifecycle
    /\ now \in 0..MaxNow
    /\ \E t1 \in 0..now, kind \in StatusKinds :
        \/ known_clients = OneClient(kind, t1)
        \/ \E t2 \in {0, now} : known_clients = TwoClients(kind, t1, t2)
    /\ bus = <<>>
    /\ call = Idle

NextStatus == GetClientStatus

SpecStatus == InitStatus /\ [][NextStatus]_vars

\* C14: the snapshot reports, for every known address, offline_duration =
\* now - last_seen and online exactly when that is below 10 seconds; a
\* client recorded at 0 is online at 9.9 s and offline at 10 s and at
\* 10.1 s.
C14_OnlineThreshold ==
    call.op = "get_client_status" =>
        /\ DOMAIN call.result = DOMAIN known_clients
        /\ \A a \in DOMAIN known_clients :
            LET last_seen == known_clients[a].last_seen
                entry == call.result[a]
            IN  /\ entry.offline_duration = now - last_seen
                /\ entry.online = (now - last_seen < 10 * TICKS_PER_SECOND)
                /\ (last_seen = 0 /\ now = 99) => entry.online
                /\ (last_seen = 0 /\ now \in {100, 101}) => ~entry.online

\* A client recorded at 0 and one recorded at 10 s are queried at 10 s: the
\* first is offline, the second online.
C14_Witness ==
    /\ call.op = "get_client_status"
    /\ now = 100
    /\ known_clients = TwoClients("heartbeat", 0, 100)
    /\ ~call.result["10.0.0.1:5000"].online
    /\ call.result["10.0.0.1:5000"].offline_duration = 100
    /\ call.result["10.0.0.2:5000"].online

\* ------------------------------------------------------------------------
\* Claims on the snapshot, under the protocol
\* ------------------------------------------------------------------------

\* Two snapshots list the same addresses with the same type and last_seen.
SameRecords(first, second) ==
    /\ DOMAIN first = DOMAIN second
    /\ \A a \in DOMAIN first :
        /\ first[a].type = second[a].type
        /\ first[a].last_seen = second[a].last_seen

\* C15 (as stated): get_client_status leaves the client table alone, and two
\* calls with no record call in between return the same addresses, type,
\* last_seen and online, with an offline_duration that does not decrease.
\* The online flag of a client is derived from offline_duration, so it
\* turns false between two calls that straddle the threshold; the statement
\* is violated.
C15_SnapshotIdenticalButDuration ==
    (call.op = "get_client_status" /\ call.repeated) =>
        /\ SameRecords(call.previous, call.result)
        /\ \A a \in DOMAIN call.result :
            /\ call.result[a].online = call.previous[a].online
            /\ call.result[a].offline_duration
                   >= call.previous[a].offline_duration

\* C15 (amended): get_client_status leaves the client table alone, and two
\* calls with no record call in between return the same addresses, type and
\* last_seen, with an offline_duration that does not decrease and an online
\* flag that is unchanged or has turned from true to false; the two results
\* are equal when no time has passed.
C15_SnapshotIdempotent ==
    /\ []((call.op = "get_client_status" /\ call.repeated) =>
            /\ SameRecords(call.previous, call.result)
            /\ \A a \in DOMAIN call.result :
                /\ call.result[a].offline_duration
                       >= call.previous[a].offline_duration
                /\ call.result[a].online => call.previous[a].online
                /\ (call.result[a].offline_duration
                        = call.previous[a].offline_duration)
                       => call.result[a] = call.previous[a])
    /\ [][call'.op = "get_client_status" =>
            known_clients' = known_clients]_vars

\* A second snapshot has been taken 0.1 s after the first with no datagram
\* in between: a client seen 9.9 s before the first has gone offline.
C15_Witness ==
    /\ call.op = "get_client_status"
    /\ call.repeated
    /\ \E a \in DOMAIN call.result :
        /\ call.previous[a].online
        /\ call.previous[a].offline_duration = 99
        /\ ~call.result[a].online
        /\ call.result[a].offline_duration = 100

\* C16: the set of addresses in the client table only grows, and every
\* address of the table is in every snapshot, however long it has been
\* silent.
C16_NoEviction ==
    /\ [][DOMAIN known_clients \subseteq DOMAIN known_clients']_vars
    /\ [](call.op = "get_client_status" =>
            DOMAIN call.result = DOMAIN known_clients)

\* A snapshot lists a client silent for 10 s beside one seen since then.
C16_Witness ==
    /\ call.op = "get_client_status"
    /\ \E a, b \in DOMAIN call.result :
        /\ call.result[a].offline_duration >= 100
        /\ ~call.result[a].online
        /\ call.result[b].last_seen > call.result[a].last_seen

\* ------------------------------------------------------------------------
\* _update_client_status and get_client_status statement by statement, one
\* call of each in progress at a time, their statements interleaved in any
\* order.  (On the event loop each call runs to its end before the other
\* starts; those runs are among the interleavings.)  call holds the
\* position and the locals of the two calls, and the (address, type,
\* last_seen) triples the record calls have assigned so far.
\* ------------------------------------------------------------------------
WriterKinds == {"temperature_sensor", "heartbeat"}
WrittenAddress == "10.0.0.1:5000"
SilentAddress == "10.0.0.2:5000"

WriterIdle == [pc |-> "idle"]
ReaderIdle == [pc |-> "idle", status |-> <<>>]

\* The field read through the table again at each access.
InfoGetThroughTable(info, clients, addr, field) == clients[addr][field]

\* info.get(field) on the record object the iteration handed out.  A record
\* object is never changed once it is in the table, so the object is the
\* value it had when fetched.  clients and addr are the table and the key
\* it came from.
InfoGet(info, clients, addr, field) == info[field]

TripleOf(addr, client_info) ==
    <<addr, client_info.type, client_info.last_seen>>

InitInterleaved ==
    /\ NoLifecycle
    /\ now = 0
    /\ bus = <<>>
    /\ \E kind \in WriterKinds :
        LET table == _update_client_status(
                         _update_client_status(<<>>, SilentAddress,
                             "registration", [registration_data |-> <<>>], 0),
                         WrittenAddress, kind, NoExtra, 0)
        IN  /\ known_clients = table
            /\ call = [op |-> "interleaved",
                       writer |-> WriterIdle, reader |-> ReaderIdle,
                       written |-> {TripleOf(a, table[a]) :
                                        a \in DOMAIN table}]

\* _update_client_status(addr, client_type): current_time = loop.time()
WriterEnter ==
    /\ call.writer.pc = "idle"
    /\ \E kind \in WriterKinds :
        call' = [call EXCEPT !.writer =
                    [pc |-> "timed", addr |-> WrittenAddress,
                     client_type |-> kind, current_time |-> now]]
    /\ UNCHANGED <<known_clients, now, bus, lifecycle>>

\* client_info = {...}, with the stamp of the kind
WriterBuild ==
    /\ call.writer.pc = "timed"
    /\ call' = [call EXCEPT !.writer =
                   [pc |-> "built", addr |-> call.writer.addr,
                    client_info |-> ClientInfo(call.writer.client_type,
                                        NoExtra, call.writer.current_time)]]
    /\ UNCHANGED <<known_clients, now, bus, lifecycle>>

\* self.known_clients[addr] = client_info
WriterPublish ==
    /\ call.writer.pc = "built"
    /\ known_clients' = DictSet(known_clients, call.writer.addr,
                                call.writer.client_info)
    /\ call' = [call EXCEPT
                   !.writer = WriterIdle,
                   !.written = @ \cup {TripleOf(call.writer.addr,
                                                call.writer.client_info)}]
    /\ UNCHANGED <<now, bus, lifecycle>>

\* get_client_status(): current_time = loop.time(); status = {}; the
\* iteration over known_clients.items() starts
ReaderEnter ==
    /\ call.reader.pc \in {"idle", "returned"}
    /\ call' = [call EXCEPT !.reader =
                   [pc |-> "iterating", current_time |-> now,
                    status |-> <<>>, pending |-> DOMAIN known_clients]]
    /\ UNCHANGED <<known_clients, now, bus, lifecycle>>

\* for addr, info in self.known_clients.items()
ReaderFetch ==
    /\ call.reader.pc = "iterating"
    /\ \E addr \in call.reader.pending :
        call' = [call EXCEPT !.reader =
                    [pc |-> "fetched",
                     current_time |-> call.reader.current_time,
                     status |-> call.reader.status,
                     pending |-> call.reader.pending \ {addr},
                     addr |-> addr, info |-> known_clients[addr]]]
    /\ UNCHANGED <<known_clients, now, bus, lifecycle>>

\* last_seen = info.get('last_seen', 0)
ReaderReadLastSeen ==
    /\ call.reader.pc = "fetched"
    /\ call' = [call EXCEPT !.reader =
                   [pc |-> "read", current_time |-> call.reader.current_time,
                    status |-> call.reader.status,
                    pending |-> call.reader.pending,
                    addr |-> call.reader.addr, info |-> call.reader.info,
                    last_seen |-> InfoGet(call.reader.info, known_clients,
                                          call.reader.addr, "last_seen")]]
    /\ UNCHANGED <<known_clients, now, bus, lifecycle>>

\* status[addr] = {'type': info.get('type', 'unknown'), ...}
ReaderStore ==
    /\ call.reader.pc = "read"
    /\ LET r == call.reader
           offline_duration == r.current_time - r.last_seen
           entry == [type |-> InfoGet(r.info, known_clients, r.addr, "type"),
                     last_seen |-> r.last_seen,
                     online |-> offline_duration
                                    < OFFLINE_THRESHOLD * TICKS_PER_SECOND,
                     offline_duration |-> offline_duration]
       IN  call' = [call EXCEPT !.reader =
                       [pc |-> "iterating", current_time |-> r.current_time,
                        status |-> DictSet(r.status, r.addr, entry),
                        pending |-> r.pending]]
    /\ UNCHANGED <<known_clients, now, bus, lifecycle>>

\* return status
ReaderReturn ==
    /\ call.reader.pc = "iterating"
    /\ call.reader.pending = {}
    /\ call' = [call EXCEPT !.reader =
                   [pc |-> "returned", status |-> call.reader.status]]
    /\ UNCHANGED <<known_clients, now, bus, lifecycle>>

NextInterleaved ==
    \/ WriterEnter \/ WriterBuild \/ WriterPublish
    \/ ReaderEnter \/ ReaderFetch \/ ReaderReadLastSeen \/ ReaderStore
    \/ ReaderReturn
    \/ Tick

SpecInterleaved == InitInterleaved /\ [][NextInterleaved]_vars

\* C17: every entry of every snapshot, finished or in progress, carries the
\* type and the last_seen that one single record call assigned to that
\* address, however the statements of the record calls fall between those of
\* the snapshot.
C17_NoTornWrite ==
    \A a \in DOMAIN call.reader.status :
        <<a, call.reader.status[a].type, call.reader.status[a].last_seen>>
            \in call.written

\* A record call has replaced the record of an address, with another type
\* and time, after the snapshot fetched it and before the snapshot
\* returned: the snapshot reports the record as it was before.
C17_Witness ==
    /\ call.reader.pc = "returned"
    /\ WrittenAddress \in DOMAIN call.reader.status
    /\ LET entry == call.reader.status[WrittenAddress]
           record == known_clients[WrittenAddress]
       IN  /\ entry.type # record.type
           /\ entry.last_seen # record.last_seen
           /\ record.last_seen <= entry.last_seen + entry.offline_duration

\* ------------------------------------------------------------------------
\* Text datagrams: words joined into a text, received, then received again
\* with the case of some letters changed
\* ------------------------------------------------------------------------
MaxTextLen == 101       \* the longest text, in characters
MaxCaseChanges == 2     \* case changes applied in a row to one text

TextSource == "10.0.0.1:5000"

WordHello == <<104, 101, 108, 108, 111>>                    \* "hello"
WordStatus == <<115, 116, 97, 116, 117, 115>>               \* "status"
WordPing == <<112, 105, 110, 103>>                          \* "ping"
WordLogin == <<108, 111, 103, 105, 110>>                    \* "login"
WordHeartbeat == <<104, 101, 97, 114, 116, 98, 101, 97, 116>>
\* "HEARTBEAT from device A"
TextFromDeviceA ==
    <<72, 69, 65, 82, 84, 66, 69, 65, 84, 32, 102, 114, 111, 109, 32,
      100, 101, 118, 105, 99, 101, 32, 65>>
\* "heartbeat from device a"
TextFromDeviceALower ==
    <<104, 101, 97, 114, 116, 98, 101, 97, 116, 32, 102, 114, 111, 109, 32,
      100, 101, 118, 105, 99, 101, 32, 97>>

NeutralWords == {WordHello, WordStatus}
FirstWords == HEARTBEAT_INDICATORS \cup REGISTRATION_INDICATORS
                  \cup NeutralWords
SecondWords == {WordPing, WordLogin}

\* The words joined by a space; the word followed by dots up to n characters.
Joined(parts) ==
    IF Len(parts) = 1 THEN parts[1] ELSE parts[1] \o <<32>> \o parts[2]
Padded(word, n) == word \o [i \in 1..(n - Len(word)) |-> 46]

\* A text with the words it was made of.
TextInputs ==
    {[parts |-> <<w>>, data |-> w] : w \in FirstWords}
    \cup {[parts |-> <<w1, w2>>, data |-> Joined(<<w1, w2>>)] :
             w1 \in FirstWords, w2 \in SecondWords}
    \cup {[parts |-> <<w>>, data |-> Padded(w, n)] :
             w \in {WordPing, WordLogin},
             n \in (HEARTBEAT_DATA_LIMIT - 1)..MaxTextLen}
    \cup {[parts |-> <<WordHeartbeat>>, data |-> TextFromDeviceA]}

IsUpperLetter(c) == 65 <= c /\ c <= 90
IsLowerLetter(c) == 97 <= c /\ c <= 122
SwapCase(c) ==
    IF IsUpperLetter(c) THEN c + 32
    ELSE IF IsLowerLetter(c) THEN c - 32 ELSE c

\* The texts that differ from data only in the case of letters: one letter
\* changed, every letter in upper case, every letter in lower case.
CaseVariants(data) ==
    ({[data EXCEPT ![i] = SwapCase(data[i])] : i \in 1..Len(data)}
        \cup {[i \in 1..Len(data) |->
                  IF IsLowerLetter(data[i]) THEN data[i] - 32 ELSE data[i]],
              [i \in 1..Len(data) |->
                  IF IsUpperLetter(data[i]) THEN data[i] + 32 ELSE data[i]]})
    \ {data}

\* What the events of one datagram say of its classification.
KindOf(fired) ==
    IF \E i \in 1..Len(fired) : fired[i].data.event_type = "device_heartbeat"
    THEN "heartbeat"
    ELSE IF \E i \in 1..Len(fired) :
                fired[i].data.event_type = "device_registered"
    THEN "registration"
    ELSE IF fired = <<>> THEN "unrecognized" ELSE "other"

InitText ==
    /\ NoLifecycle
    /\ known_clients = <<>>
    /\ now = 0
    /\ bus = <<>>
    /\ \E input \in TextInputs :
        call = [op |-> "datagram_received", pc |-> "entered",
                data |-> input.data, addr |-> TextSource,
                parts |-> input.parts, changes |-> 0]

\* datagram_received(data, addr) of the text, its bytes being its characters
ReceiveText ==
    /\ call.pc = "entered"
    /\ LET cond == Conditions(call.data)
           effect == DatagramEffect(known_clients, cond, call.addr, now)
       IN  /\ known_clients' = effect.known_clients
           /\ bus' = effect.bus
           /\ call' = [op |-> "datagram_received", pc |-> "returned",
                       data |-> call.data, addr |-> call.addr,
                       valid |-> cond.valid,
                       parsed_data |-> cond.parsed_data,
                       outcome |-> DatagramOutcome(cond, call.data),
                       parts |-> call.parts, changes |-> 0,
                       original |-> call.data,
                       original_kind |-> KindOf(effect.bus)]
    /\ UNCHANGED <<now, lifecycle>>

\* datagram_received(data, addr) of a case variant of the text received last
ReceiveCaseVariant ==
    /\ call.pc = "returned"
    /\ call.changes < MaxCaseChanges
    /\ \E data \in CaseVariants(call.data) :
        LET cond == Conditions(data)
            effect == DatagramEffect(known_clients, cond, call.addr, now)
        IN  /\ known_clients' = effect.known_clients
            /\ bus' = effect.bus
            /\ call' = [op |-> "datagram_received", pc |-> "returned",
                        data |-> data, addr |-> call.addr,
                        valid |-> cond.valid,
                        parsed_data |-> cond.parsed_data,
                        outcome |-> DatagramOutcome(cond, data),
                        parts |-> call.parts,
                        changes |-> call.changes + 1,
                        original |-> call.original,
                        original_kind |-> call.original_kind]
    /\ UNCHANGED <<now, lifecycle>>

NextText == ReceiveText \/ ReceiveCaseVariant

SpecText == InitText /\ [][NextText]_vars

\* ------------------------------------------------------------------------
\* Claims on text datagrams
\* ------------------------------------------------------------------------

\* C18: the text carried by every heartbeat event and by every registration
\* event is at most 100 characters long.  _handle_heartbeat fires
\* data[:100]; _handle_registration fires the whole text (it cuts the text
\* for its log line only), and the statement is violated.
C18_EventTextBounded ==
    \A i \in 1..Len(bus) :
        LET event == bus[i].data
        IN  /\ event.event_type = "device_heartbeat" =>
                Len(event.heartbeat_data) <= 100
            /\ event.event_type = "device_registered" =>
                Len(event.registration_data) <= 100

HasHeartbeatWord(parts) ==
    \E i \in 1..Len(parts) : parts[i] \in HEARTBEAT_INDICATORS
HasRegistrationWord(parts) ==
    \E i \in 1..Len(parts) : parts[i] \in REGISTRATION_INDICATORS

\* C19: a text made with a heartbeat indicator is handled as a heartbeat,
\* also when it holds a registration indicator, before or after; a text
\* made with a registration indicator and no heartbeat indicator is handled
\* as a registration; a text made of other words fires no event and writes
\* no record.
C19_ClassificationOrder ==
    (call.op = "datagram_received" /\ call.pc = "returned") =>
        IF HasHeartbeatWord(call.parts)
        THEN /\ KindOf(bus) = "heartbeat"
             /\ Len(bus) = 1
             /\ known_clients[call.addr].type = "heartbeat"
        ELSE IF HasRegistrationWord(call.parts)
        THEN /\ KindOf(bus) = "registration"
             /\ Len(bus) = 1
             /\ known_clients[call.addr].type = "registration"
        ELSE /\ bus = <<>>
             /\ known_clients = <<>>

\* "login ping" has been handled as a heartbeat.
C19_Witness ==
    /\ call.pc = "returned"
    /\ call.parts = <<WordLogin, WordPing>>
    /\ call.changes = 0
    /\ KindOf(bus) = "heartbeat"
    /\ "last_heartbeat" \in DOMAIN known_clients[call.addr]

\* C20: a text that differs from another only in the case of letters is
\* classified as the other is.
C20_CaseInsensitive ==
    (call.op = "datagram_received" /\ call.pc = "returned") =>
        KindOf(bus) = call.original_kind

\* "heartbeat from device a" has been handled as a heartbeat after
\* "HEARTBEAT from device A" was.
C20_Witness ==
    /\ call.pc = "returned"
    /\ call.original = TextFromDeviceA
    /\ call.data = TextFromDeviceALower
    /\ call.changes = 1
    /\ call.original_kind = "heartbeat"
    /\ KindOf(bus) = "heartbeat"

\* ------------------------------------------------------------------------
\* Claims on the record kind and on the events of one datagram
\* ------------------------------------------------------------------------
RecordKinds == {"temperature_sensor", "heartbeat", "registration"}

\* The record kind the events of one datagram stand for; "none" when the
\* datagram fired no event (it was not recognized).
RecordKindOf(fired) ==
    IF Len(fired) = 0 THEN "none"
    ELSE IF fired[1].data.event_type = "temperature_data_received"
    THEN "temperature_sensor"
    ELSE IF fired[1].data.event_type = "device_heartbeat" THEN "heartbeat"
    ELSE IF fired[1].data.event_type = "device_registered"
    THEN "registration"
    ELSE "other"

\* C21: the type of every client record is temperature_sensor, heartbeat
\* or registration; a recognized datagram leaves the record of its source
\* with the type of its classification and last_seen at its handling time;
\* any other step, and any datagram for the records of other sources,
\* leaves a record as it was.
C21_RecordKind ==
    /\ [](\A a \in DOMAIN known_clients :
            known_clients[a].type \in RecordKinds)
    /\ [][DatagramStep =>
            LET a == call'.addr
                kind == RecordKindOf(bus')
            IN  /\ \A b \in DOMAIN known_clients' \ {a} :
                       /\ b \in DOMAIN known_clients
                       /\ known_clients'[b] = known_clients[b]
                /\ IF kind = "none"
                   THEN /\ (a \in DOMAIN known_clients')
                               = (a \in DOMAIN known_clients)
                        /\ a \in DOMAIN known_clients
                               => known_clients'[a] = known_clients[a]
                   ELSE /\ a \in DOMAIN known_clients'
                        /\ known_clients'[a].type = kind
                        /\ known_clients'[a].last_seen = now']_vars
    /\ [][~DatagramStep => known_clients' = known_clients]_vars

\* A source registered at 9.9 s and then sent a text that is not
\* recognized at 10 s, after another source had sent a heartbeat: its
\* record is the registration of 9.9 s.
C21_Witness ==
    /\ call.op = "datagram_received"
    /\ bus = <<>>
    /\ now = 100
    /\ call.addr \in DOMAIN known_clients
    /\ known_clients[call.addr].type = "registration"
    /\ known_clients[call.addr].last_seen = 99
    /\ \E b \in DOMAIN known_clients :
        known_clients[b].type = "heartbeat" /\ known_clients[b].last_seen = 0

\* The datagrams of the protocol that yield a reading, and those that
\* decode to a text holding an indicator.
ClassifiedDatagrams ==
    {d \in Datagrams :
        \/ ConditionsOf[d].parsed_data # None
        \/ ConditionsOf[d].is_text_packet}

\* C22: handling one datagram fires at most one event: exactly one when the
\* datagram yields a reading or is a text with an indicator, none
\* otherwise; when the event is fired the record of the source is already
\* written, so the status a listener gets during the event lists the source
\* with the type of the event, seen at that instant and online.
C22_OneEventAfterRecord ==
    [][DatagramStep =>
        /\ Len(bus') <= 1
        /\ (Len(bus') = 1) = (call'.data \in ClassifiedDatagrams)
        /\ \A i \in 1..Len(bus') :
            LET status == ClientStatus(bus'[i].listener_view, now')
            IN  /\ call'.addr \in DOMAIN status
                /\ status[call'.addr].type = RecordKindOf(bus')
                /\ status[call'.addr].type \in RecordKinds
                /\ status[call'.addr].offline_duration = 0
                /\ status[call'.addr].online
                /\ bus'[i].listener_view = known_clients']_vars

\* A first heartbeat from a source has fired its one event; the listener's
\* view already holds the source.
C22_Witness ==
    /\ call.op = "datagram_received"
    /\ Len(bus) = 1
    /\ RecordKindOf(bus) = "heartbeat"
    /\ DOMAIN bus[1].listener_view = {call.addr}
    /\ bus[1].listener_view[call.addr].type = "heartbeat"

\* C23: every buffer that yields a reading is at least 7 bytes long, so the
\* register bytes at offsets 3-4 are never bytes of the trailing 2-byte
\* CRC.  The validator asks for 5 bytes and the parser for 3 + byte count,
\* so a 5-byte buffer whose last two bytes are the CRC of the first three
\* yields a reading decoded from its CRC; the statement is violated.
C23_RegisterAndCrcDisjoint ==
    (HasReturned("parse") /\ call.result # None) =>
        Len(call.arg) >= REGISTER_END + 2

\* ------------------------------------------------------------------------
\* UDPTempServer: one server object and the start() and stop() coroutines
\* running on it, each advancing from one await to the next.  What the
\* operating system and the event loop answer (bind, endpoint creation,
\* close, is_closing) is chosen freely.  Sleeps are in ticks of 0.1 s.
\* ------------------------------------------------------------------------
DEFAULT_PORT == 8889            \* entry.data.get("port", 8889)
max_retries == 3
INITIAL_RETRY_DELAY == 10       \* retry_delay = 1.0
\* "while ... total_waited < max_wait" with max_wait = 5.0 and steps of
\* wait_time = 0.1: the float sum of fifty steps is 4.999999999999998, so
\* the loop gives up only after the 51st sleep.
MAX_WAIT_SLEEPS == 51

\* UDPProtocol.__init__
UDPProtocol == [known_clients |-> <<>>]

\* UDPTempServer.__init__; _start_lock holds whether the lock is taken
UDPTempServer(port) ==
    [port |-> port, transport |-> None, protocol |-> None,
     _running |-> FALSE, _start_lock |-> FALSE]

\* The transport create_datagram_endpoint returns.
OpenTransport == [closed |-> FALSE]

\* UDPTempServer.is_running
is_running(server) == server._running /\ server.transport # None

\* UDPTempServer.get_client_status
get_client_status(server, current_time) ==
    IF ~server._running \/ server.protocol = None THEN <<>>
    ELSE ClientStatus(server.protocol.known_clients, current_time)

\* asyncio.Lock.locked(), negated
LockIgnored(server) == TRUE
LockFree(server) == ~server._start_lock

\* "self.transport, self.protocol = await loop.create_datagram_endpoint(
\* lambda: UDPProtocol(self.hass), sock=sock)" and "self._running = True"
StartSucceeded(server) ==
    [server EXCEPT !.transport = OpenTransport, !.protocol = UDPProtocol,
                   !._running = TRUE]

\* stop giving up the transport only
StopResetTransportOnly(server) == [server EXCEPT !.transport = None]
\* stop, try block: "self.transport = None", "self.protocol = None",
\* "self._running = False"
StopReset(server) ==
    [server EXCEPT !.transport = None, !.protocol = None, !._running = FALSE]

\* the except clause of stop leaving the flag as it is
StopFailedKeepingFlag(server) ==
    [server EXCEPT !.transport = None, !.protocol = None]
\* stop, except Exception: the same three fields
StopFailed(server) ==
    [server EXCEPT !._running = FALSE, !.transport = None, !.protocol = None]

\* "self.transport.close()" went through
Closed(server) == [server EXCEPT !.transport = [closed |-> TRUE]]

\* How an attempt of start can fail: an OSError whose message names a port
\* problem (address already in use, only one usage, permission denied), any
\* other OSError, any other Exception.
StartErrors == {"port", "OSError", "Exception"}

\* the delay never doubled
RetryDelayConstant(retry_delay, error) == retry_delay
\* "retry_delay *= 2" after the sleep of the port branch; the generic branch
\* sleeps and leaves the delay alone
RetryDelayAfterSleep(retry_delay, error) ==
    IF error = "port" THEN retry_delay * 2 ELSE retry_delay

Raise(task, exception) ==
    [task EXCEPT !.pc = "raised", !.exception = exception]

SleepThenRetry(task) ==
    [task EXCEPT !.pc = "sleep", !.slept = Append(@, task.retry_delay)]

\* The except clauses of start, up to the sleep or the raise.
StartFailed(task, error) ==
    LET failed == [task EXCEPT !.failures = Append(@, error)]
    IN  IF error = "port"
        THEN IF task.attempt < max_retries - 1
             THEN SleepThenRetry(failed)
             ELSE Raise(failed, "ConfigEntryNotReady")
        ELSE IF error = "OSError"
        THEN Raise(failed, "OSError")
        ELSE IF task.attempt = max_retries - 1
             THEN Raise(failed, "ConfigEntryNotReady")
             ELSE SleepThenRetry(failed)

TaskIds == {"task_1", "task_2"}
IdleTask == [op |-> "idle"]

\* The addresses in the table of a server, none without a protocol.
Recorded(server) ==
    IF server.protocol = None THEN {}
    ELSE DOMAIN server.protocol.known_clients

\* A call of start() or stop() that has not yet got the lock.  A call of
\* stop remembers the server as it found it; a call of start that directly
\* follows a call of stop remembers the addresses that stop found recorded.
StartTask(t) ==
    [op |-> "start", task |-> t, pc |-> "lock", was_running |-> FALSE,
     attempt |-> 0, retry_delay |-> INITIAL_RETRY_DELAY, slept |-> <<>>,
     failures |-> <<>>, sockets |-> 0, exception |-> "", forgotten |-> {}]

StopTask(t) ==
    [op |-> "stop", task |-> t, pc |-> "lock", was_running |-> FALSE,
     total_waited |-> 0, timed_out |-> FALSE, close_raised |-> FALSE,
     before |-> None, exception |-> ""]

Ended(task) == task.pc \in {"returned", "raised"}

\* Coroutine t has run up to its next await, or to its end: at the end
\* "async with self._start_lock" releases the lock and the call is over.
Settle(t, task, server) ==
    /\ tasks' = [tasks EXCEPT ![t] = IF Ended(task) THEN IdleTask ELSE task]
    /\ servers' = [servers EXCEPT ![1] =
                      IF Ended(task)
                      THEN [server EXCEPT !._start_lock = FALSE]
                      ELSE server]
    /\ call' = IF Ended(task) THEN task ELSE call
    /\ bus' = <<>>
    /\ UNCHANGED <<known_clients, now, hass>>

InitServer ==
    /\ known_clients = <<>>
    /\ now = 0
    /\ bus = <<>>
    /\ call = Idle
    /\ servers = <<UDPTempServer(DEFAULT_PORT)>>
    /\ tasks = [t \in TaskIds |-> IdleTask]
    /\ hass = NoHass

\* await udp_server.start() is called
StartCall(t) ==
    /\ tasks[t] = IdleTask
    /\ tasks' = [tasks EXCEPT ![t] = StartTask(t)]
    /\ UNCHANGED <<known_clients, now, bus, call, servers, hass>>

\* "async with self._start_lock" and "if self._running: return"
StartAcquire(t) ==
    /\ tasks[t].op = "start"
    /\ tasks[t].pc = "lock"
    /\ LockFree(servers[1])
    /\ LET locked == [servers[1] EXCEPT !._start_lock = TRUE]
       IN  IF servers[1]._running
           THEN Settle(t, [tasks[t] EXCEPT !.pc = "returned",
                                           !.was_running = TRUE], locked)
           ELSE Settle(t, [tasks[t] EXCEPT
                              !.pc = "attempt",
                              !.forgotten = IF call.op = "stop"
                                            THEN Recorded(call.before)
                                            ELSE {}],
                       locked)

\* One pass of the loop up to the await: socket(), setsockopt(), bind()
StartBind(t) ==
    /\ tasks[t].op = "start"
    /\ tasks[t].pc = "attempt"
    /\ LET task == [tasks[t] EXCEPT !.sockets = @ + 1]
       IN  \/ Settle(t, [task EXCEPT !.pc = "endpoint"], servers[1])
           \/ \E error \in StartErrors :
                Settle(t, StartFailed(task, error), servers[1])

\* create_datagram_endpoint answers
StartEndpoint(t) ==
    /\ tasks[t].op = "start"
    /\ tasks[t].pc = "endpoint"
    /\ \/ Settle(t, [tasks[t] EXCEPT !.pc = "returned"],
                 StartSucceeded(servers[1]))
       \/ \E error \in StartErrors :
            Settle(t, StartFailed(tasks[t], error), servers[1])

\* asyncio.sleep(retry_delay) is over: the next pass of the loop
StartSleep(t) ==
    /\ tasks[t].op = "start"
    /\ tasks[t].pc = "sleep"
    /\ LET task == tasks[t]
           error == task.failures[Len(task.failures)]
       IN  Settle(t, [task EXCEPT !.pc = "attempt",
                                  !.attempt = @ + 1,
                                  !.retry_delay =
                                      RetryDelayAfterSleep(@, error)],
                  servers[1])

\* await udp_server.stop() is called
StopCall(t) ==
    /\ tasks[t] = IdleTask
    /\ tasks' = [tasks EXCEPT ![t] = StopTask(t)]
    /\ UNCHANGED <<known_clients, now, bus, call, servers, hass>>

\* What transport.close() and transport.is_closing() can answer.
CloseOutcomes == {"closed", "raised"}
IsClosingOutcomes == {"closing", "open", "raised"}

\* The loop test of stop and what follows it up to the next await: the
\* except clause when is_closing() raised, the three assignments when the
\* loop is left, another sleep of wait_time otherwise.
StopLoopTest(task, server, is_closing) ==
    IF is_closing = "raised"
    THEN [task |-> [task EXCEPT !.pc = "returned", !.close_raised = TRUE],
          server |-> StopFailed(server)]
    ELSE IF is_closing = "closing" \/ task.total_waited >= MAX_WAIT_SLEEPS
    THEN [task |-> [task EXCEPT !.pc = "release",
                        !.timed_out = task.total_waited >= MAX_WAIT_SLEEPS],
          server |-> StopReset(server)]
    ELSE [task |-> [task EXCEPT !.pc = "wait"], server |-> server]

\* "async with self._start_lock", "if not self._running: return",
\* "self.transport.close()" and the first test of the wait loop
StopAcquire(t) ==
    /\ tasks[t].op = "stop"
    /\ tasks[t].pc = "lock"
    /\ LockFree(servers[1])
    /\ LET locked == [servers[1] EXCEPT !._start_lock = TRUE]
           task == [tasks[t] EXCEPT !.was_running = servers[1]._running,
                                    !.before = servers[1]]
       IN  IF ~servers[1]._running
           THEN Settle(t, [task EXCEPT !.pc = "returned"], locked)
           ELSE \E close \in CloseOutcomes, is_closing \in IsClosingOutcomes :
                    LET after == StopLoopTest(task, Closed(locked),
                                     IF close = "raised" THEN "raised"
                                     ELSE is_closing)
                    IN  Settle(t, after.task, after.server)

\* asyncio.sleep(wait_time) is over: "total_waited += wait_time" and the
\* loop test again
StopWait(t) ==
    /\ tasks[t].op = "stop"
    /\ tasks[t].pc = "wait"
    /\ \E is_closing \in IsClosingOutcomes :
        LET after == StopLoopTest(
                         [tasks[t] EXCEPT !.total_waited = @ + 1],
                         servers[1], is_closing)
        IN  Settle(t, after.task, after.server)

\* asyncio.sleep(0.5) is over: stop returns
StopRelease(t) ==
    /\ tasks[t].op = "stop"
    /\ tasks[t].pc = "release"
    /\ Settle(t, [tasks[t] EXCEPT !.pc = "returned"], servers[1])

\* The datagrams and the source the running server is sent.
ServerDatagrams == {FrameNormal, FrameBadCrc}
ServerAddresses == {"10.0.0.1:5000"}

\* The event loop hands a datagram to the protocol of the open transport.
ServerDatagramReceived ==
    /\ servers[1].transport # None
    /\ ~servers[1].transport.closed
    /\ \E data \in ServerDatagrams, addr \in ServerAddresses :
        LET effect == DatagramEffect(servers[1].protocol.known_clients,
                                     ConditionsOf[data], addr, now)
        IN  /\ servers' = [servers EXCEPT
                              ![1].protocol.known_clients =
                                  effect.known_clients]
            /\ bus' = effect.bus
            /\ call' = [op |-> "datagram_received", pc |-> "returned",
                        data |-> data, addr |-> addr]
    /\ UNCHANGED <<known_clients, now, tasks, hass>>

\* The status service asks the server, between any two steps of the
\* coroutines.
ServerGetClientStatus ==
    /\ call' = [op |-> "get_client_status", pc |-> "returned",
                result |-> get_client_status(servers[1], now),
                is_running |-> is_running(servers[1])]
    /\ bus' = <<>>
    /\ UNCHANGED <<known_clients, now, servers, tasks, hass>>

NextServer ==
    \/ \E t \in TaskIds : StartCall(t)
    \/ \E t \in TaskIds : StartAcquire(t)
    \/ \E t \in TaskIds : StartBind(t)
    \/ \E t \in TaskIds : StartEndpoint(t)
    \/ \E t \in TaskIds : StartSleep(t)
    \/ \E t \in TaskIds : StopCall(t)
    \/ \E t \in TaskIds : StopAcquire(t)
    \/ \E t \in TaskIds : StopWait(t)
    \/ \E t \in TaskIds : StopRelease(t)
    \/ ServerDatagramReceived
    \/ ServerGetClientStatus

SpecServer == InitServer /\ [][NextServer]_vars

\* The event loop resumes a coroutine of start whose await is over: bind and
\* create_datagram_endpoint answer and asyncio.sleep ends.
StartStep(t) == StartBind(t) \/ StartEndpoint(t) \/ StartSleep(t)

SpecServerFair == SpecServer /\ \A t \in TaskIds : WF_vars(StartStep(t))

\* ------------------------------------------------------------------------
\* Claims on UDPTempServer
\* ------------------------------------------------------------------------

\* The sleeps of a start call that followed a port failure, in order.
PortSleeps(c) ==
    LET Pick[i \in 0..Len(c.slept)] ==
            IF i = 0 THEN <<>>
            ELSE IF c.failures[i] = "port"
                 THEN Append(Pick[i - 1], c.slept[i])
                 ELSE Pick[i - 1]
    IN  Pick[Len(c.slept)]

IsPrefix(s, t) == Len(s) <= Len(t) /\ \A i \in 1..Len(s) : s[i] = t[i]

\* The call of start by coroutine t ends in this step.
StartEnds(t) == tasks[t].op = "start" /\ tasks'[t] = IdleTask

\* The body of start is running in coroutine t.
InStartBody(t) == tasks[t].op = "start" /\ tasks[t].pc # "lock"

\* C24: start makes at most 3 bind attempts and, once it holds the lock,
\* always ends; the sleeps after attempts that failed with a port error are
\* 1 s then 2 s; it ends with the server running or by raising, never
\* returning with the server not running; an OSError that is not a port
\* problem is raised at once, with no sleep and no further attempt.
C24_BoundedStart ==
    /\ [](\A t \in TaskIds : tasks[t].op = "start" =>
            /\ tasks[t].attempt < max_retries
            /\ tasks[t].sockets <= max_retries)
    /\ []((call.op = "start" /\ ~call.was_running) =>
            /\ call.sockets \in 1..max_retries
            /\ Len(call.failures) <= max_retries
            /\ IsPrefix(PortSleeps(call),
                        <<INITIAL_RETRY_DELAY, 2 * INITIAL_RETRY_DELAY>>)
            /\ (\A i \in 1..Len(call.failures) : call.failures[i] = "port")
                 => /\ Len(call.slept) = Len(call.failures)
                                          - (IF call.pc = "raised" THEN 1 ELSE 0)
                    /\ PortSleeps(call) = call.slept
            /\ \A i \in 1..Len(call.failures) :
                 call.failures[i] = "OSError" =>
                    /\ i = Len(call.failures)
                    /\ Len(call.slept) = i - 1
                    /\ call.sockets = i
                    /\ call.pc = "raised"
                    /\ call.exception = "OSError")
    /\ [][\A t \in TaskIds : StartEnds(t) =>
            /\ call'.op = "start"
            /\ call'.pc \in {"returned", "raised"}
            /\ call'.pc = "returned" =>
                 /\ servers'[1]._running
                 /\ servers'[1].transport # None
                 /\ servers'[1].protocol # None]_vars
    /\ \A t \in TaskIds : InStartBody(t) ~> (tasks[t] = IdleTask)

\* Three port failures in a row: start slept 1 s, then 2 s, and raised.
C24_Witness ==
    /\ call.op = "start"
    /\ call.pc = "raised"
    /\ call.exception = "ConfigEntryNotReady"
    /\ call.failures = <<"port", "port", "port">>
    /\ call.slept = <<INITIAL_RETRY_DELAY, 2 * INITIAL_RETRY_DELAY>>

\* Coroutine t is inside "async with self._start_lock", in start or in stop.
InBody(t) == tasks[t].op \in {"start", "stop"} /\ tasks[t].pc # "lock"

\* The call of stop by coroutine t ends in this step.
StopEnds(t) == tasks[t].op = "stop" /\ tasks'[t] = IdleTask

\* No call of start or stop is in progress, waiting for the lock included.
Quiescent == \A t \in TaskIds : tasks[t] = IdleTask

\* C25: the bodies of start and stop on one server never interleave, the
\* lock being held from the entry of a body to its end, sleeps included;
\* start on a running server opens no socket and stop on a stopped server
\* changes nothing; whenever no start or stop is in progress, _running is
\* true exactly when transport and protocol are set.
C25_StartStopSerialized ==
    /\ [](/\ Cardinality({t \in TaskIds : InBody(t)}) <= 1
          /\ servers[1]._start_lock = (\E t \in TaskIds : InBody(t)))
    /\ []((call.op = "start" /\ call.was_running) =>
            /\ call.pc = "returned"
            /\ call.sockets = 0)
    /\ [][\A t \in TaskIds :
            /\ (StartEnds(t) /\ call'.was_running) =>
                  /\ servers[1]._running
                  /\ servers' = servers
            /\ (StopEnds(t) /\ ~call'.was_running) =>
                  /\ ~servers[1]._running
                  /\ servers' = servers]_vars
    /\ [](Quiescent =>
            /\ servers[1]._running = (servers[1].transport # None)
            /\ servers[1]._running = (servers[1].protocol # None))

\* A stop waits for the lock while a start sleeps between two attempts.
C25_Witness ==
    \E t, u \in TaskIds :
        /\ tasks[t].op = "start"
        /\ tasks[t].pc = "sleep"
        /\ tasks[u].op = "stop"
        /\ tasks[u].pc = "lock"
        /\ servers[1]._start_lock

\* C26: when stop returns on a running server, _running is false and
\* transport and protocol are None, also when close() or is_closing()
\* raised and when the close wait ran to its limit; stop raises nothing.
C26_StopAlwaysStops ==
    /\ [](call.op = "stop" => (call.pc = "returned" /\ call.exception = ""))
    /\ [][\A t \in TaskIds : (StopEnds(t) /\ call'.was_running) =>
            /\ call'.before._running
            /\ ~servers'[1]._running
            /\ servers'[1].transport = None
            /\ servers'[1].protocol = None]_vars

\* stop has returned on a running server after close() raised.
C26_Witness ==
    /\ call.op = "stop"
    /\ call.was_running
    /\ call.close_raised
    /\ ~servers[1]._running

\* stop has returned after the close wait ran to its limit.
C26_TimedOut ==
    /\ call.op = "stop"
    /\ call.timed_out
    /\ call.total_waited = MAX_WAIT_SLEEPS

\* The addresses a status query of the server reports.
Reported(server, current_time) == DOMAIN get_client_status(server, current_time)

\* C30: get_client_status returns an empty mapping whenever the server is
\* not running, in particular once stop has returned; the server that start
\* brings up has an empty table; and an address enters the reported status
\* only in the step that handles a recognized datagram from it, so an
\* address recorded before a stop is reported again only after it has sent
\* a new recognized datagram.
C30_TableBoundToRunningServer ==
    /\ [](~is_running(servers[1]) => Reported(servers[1], now) = {})
    /\ []((call.op = "get_client_status" /\ ~call.is_running) =>
            DOMAIN call.result = {})
    /\ [][\A t \in TaskIds : StopEnds(t) =>
            Reported(servers'[1], now') = {}]_vars
    /\ [][(~servers[1]._running /\ servers'[1]._running) =>
            /\ Recorded(servers'[1]) = {}
            /\ Reported(servers'[1], now') = {}]_vars
    /\ [][\A a \in Reported(servers'[1], now') \ Reported(servers[1], now) :
            /\ call'.op = "datagram_received"
            /\ call'.addr = a
            /\ RecordKindOf(bus') \in RecordKinds]_vars

\* start has brought the server up again right after a stop that found an
\* address recorded: the status is empty.
C30_Witness ==
    /\ call.op = "start"
    /\ call.pc = "returned"
    /\ call.forgotten # {}
    /\ is_running(servers[1])
    /\ Reported(servers[1], now) = {}

\* ------------------------------------------------------------------------
\* The entry points: async_setup_entry and async_unload_entry, each call
\* run to its end before the next begins, over two config entries and two
\* ports.  A world is hass.data[DOMAIN], the services of the domain and the
\* server objects.  start and stop are taken by their outcome: start
\* returns with the server running or raises ConfigEntryNotReady or an
\* OSError, stop returns with the server stopped.
\* ------------------------------------------------------------------------
MaxServers == 3             \* server objects constructed in one behaviour

EntryIds == {"entry_a", "entry_b"}
Ports == {DEFAULT_PORT, DEFAULT_PORT + 1}
SERVICE == "get_device_status"

StartOutcomes == {"started", "ConfigEntryNotReady", "OSError"}
\* What _register_services and async_forward_entry_setups can do: return,
\* raise ConfigEntryNotReady, raise any other Exception.
StepOutcomes == {"ok", "ConfigEntryNotReady", "Exception"}
\* async_unload_platforms returns True or False, or raises.
UnloadOutcomes == {"True", "False", "Exception"}

\* await udp_server.start(), by its outcome
start(server, outcome) ==
    IF outcome = "started" THEN StartSucceeded(server) ELSE server

\* await udp_server.stop(), run to its end
stop(server) == IF server._running THEN StopReset(server) ELSE server

\* dict.pop(key, None)
Pop(dict, keys) == [k \in DOMAIN dict \ keys |-> dict[k]]

\* "await server.stop()" for the servers of the given entries, then
\* "hass.data[DOMAIN].pop(entry_id, None)" for each
StopAndPop(world, entries) ==
    LET data == world.hass.data
        stopped == {data[e].server : e \in entries}
    IN  [hass |-> [world.hass EXCEPT !.data = Pop(data, entries)],
         servers |-> [i \in 1..Len(world.servers) |->
                         IF i \in stopped THEN stop(world.servers[i])
                         ELSE world.servers[i]]]

\* The cleanup looking at the entry id only.
CleanupExistingSameIdOnly(world, entry_id, port) ==
    StopAndPop(world, {entry_id} \cap DOMAIN world.hass.data)

\* _cleanup_existing_instance: the instance of the same entry id, then the
\* instances of other entries on the same port
_cleanup_existing_instance(world, entry_id, port) ==
    LET first == StopAndPop(world, {entry_id} \cap DOMAIN world.hass.data)
        same_port == {e \in DOMAIN first.hass.data :
                         /\ first.hass.data[e].port = port
                         /\ e # entry_id}
    IN  StopAndPop(first, same_port)

\* _cleanup_failed_setup
_cleanup_failed_setup(world, entry_id) ==
    IF world.hass.has_domain /\ entry_id \in DOMAIN world.hass.data
    THEN StopAndPop(world, {entry_id})
    ELSE world

\* _register_services, when async_register goes through
_register_services(world) ==
    IF SERVICE \in world.hass.services THEN world
    ELSE [world EXCEPT !.hass.services = @ \cup {SERVICE}]

\* How a call of async_setup_entry ends: the world it leaves, what it
\* raised, the step that failed and the server it constructed (0: none).
SetupResult(world, raised, failed_step, created) ==
    [world |-> world, raised |-> raised, failed_step |-> failed_step,
     created |-> created]

\* "except Exception": _cleanup_failed_setup, then ConfigEntryNotReady;
\* "except ConfigEntryNotReady: raise" passes it on as it is
SetupFailed(world, entry_id, exception, failed_step, created) ==
    IF exception = "ConfigEntryNotReady"
    THEN SetupResult(world, "ConfigEntryNotReady", failed_step, created)
    ELSE SetupResult(_cleanup_failed_setup(world, entry_id),
                     "ConfigEntryNotReady", failed_step, created)

\* async_setup_entry.  available is what _check_port_available returns;
\* async_register is only called, and so can only fail, when the service
\* is not yet registered.
async_setup_entry(world, entry_id, port, available, started, registered, forwarded) ==
    LET initialised == [world EXCEPT !.hass.has_domain = TRUE]
        cleaned == _cleanup_existing_instance(initialised, entry_id, port)
        sid == Len(cleaned.servers) + 1
        udp_server == start(UDPTempServer(port), started)
        constructed == [cleaned EXCEPT !.servers = Append(@, udp_server)]
        saved == [constructed EXCEPT !.hass.data =
                     (entry_id :> [server |-> sid, port |-> port]) @@ @]
        register_raises == /\ SERVICE \notin saved.hass.services
                           /\ registered # "ok"
        with_service == _register_services(saved)
    IN  IF ~available
        THEN SetupFailed(cleaned, entry_id, "ConfigEntryNotReady",
                         "port_check", 0)
        ELSE IF started # "started"
        THEN SetupFailed(constructed, entry_id, started, "start", sid)
        ELSE IF register_raises
        THEN SetupFailed(saved, entry_id, registered, "register_services",
                         sid)
        ELSE IF forwarded # "ok"
        THEN SetupFailed(with_service, entry_id, forwarded,
                         "forward_entry_setups", sid)
        ELSE SetupResult(with_service, "", "", sid)

\* async_unload_entry: the world it leaves and what it returns.  Without
\* hass.data[DOMAIN] the lookup raises KeyError and the call returns False.
async_unload_entry(world, entry_id, unloaded) ==
    IF ~world.hass.has_domain
    THEN [world |-> world, result |-> FALSE]
    ELSE LET popped == StopAndPop(world,
                                  {entry_id} \cap DOMAIN world.hass.data)
             removed == IF DOMAIN popped.hass.data = {}
                        THEN [popped EXCEPT !.hass.services = @ \ {SERVICE}]
                        ELSE popped
         IN  [world |-> removed, result |-> unloaded = "True"]

InitHass ==
    /\ known_clients = <<>>
    /\ now = 0
    /\ bus = <<>>
    /\ call = Idle
    /\ servers = <<>>
    /\ tasks = <<>>
    /\ hass = NoHass

World == [hass |-> hass, servers |-> servers]

AsyncSetupEntry ==
    /\ Len(servers) < MaxServers
    /\ \E entry_id \in EntryIds, port \in Ports, available \in BOOLEAN,
          started \in StartOutcomes, registered \in StepOutcomes,
          forwarded \in StepOutcomes :
        LET result == async_setup_entry(World, entry_id, port, available,
                                        started, registered, forwarded)
        IN  /\ hass' = result.world.hass
            /\ servers' = result.world.servers
            /\ call' = [op |-> "async_setup_entry", pc |-> "returned",
                        entry_id |-> entry_id, port |-> port,
                        raised |-> result.raised,
                        failed_step |-> result.failed_step,
                        created |-> result.created]
    /\ UNCHANGED <<known_clients, now, bus, tasks>>

AsyncUnloadEntry ==
    /\ \E entry_id \in EntryIds, unloaded \in UnloadOutcomes :
        LET result == async_unload_entry(World, entry_id, unloaded)
        IN  /\ hass' = result.world.hass
            /\ servers' = result.world.servers
            /\ call' = [op |-> "async_unload_entry", pc |-> "returned",
                        entry_id |-> entry_id, result |-> result.result,
                        was_stored |-> entry_id \in DOMAIN hass.data,
                        others |-> DOMAIN hass.data \ {entry_id}]
    /\ UNCHANGED <<known_clients, now, bus, tasks>>

NextHass == AsyncSetupEntry \/ AsyncUnloadEntry

SpecHass == InitHass /\ [][NextHass]_vars

\* ------------------------------------------------------------------------
\* Claims on the entry points
\* ------------------------------------------------------------------------

\* The servers hass.data[DOMAIN] holds.
Stored(h) == {h.data[e].server : e \in DOMAIN h.data}

\* C27: whenever async_setup_entry raises ConfigEntryNotReady, whichever
\* step failed and whatever it raised, hass.data[DOMAIN] has no entry for
\* the entry id and the server the call constructed is not running.  A
\* ConfigEntryNotReady raised after the server was saved is passed on
\* without cleanup; the statement is violated.
C27_FailedSetupLeavesNothing ==
    (call.op = "async_setup_entry" /\ call.raised = "ConfigEntryNotReady") =>
        /\ call.entry_id \notin DOMAIN hass.data
        /\ call.created # 0 => ~servers[call.created]._running

\* C28: after any sequence of completed setup and unload calls no two
\* entries of hass.data[DOMAIN] have the same port or the same server,
\* every server stored there is running on the port of its entry, every
\* server not stored there is stopped, and a server that a call removes is
\* stopped when the call ends.
C28_OneServerPerPort ==
    /\ [](\A e1, e2 \in DOMAIN hass.data :
            e1 # e2 => /\ hass.data[e1].port # hass.data[e2].port
                       /\ hass.data[e1].server # hass.data[e2].server)
    /\ [](\A e \in DOMAIN hass.data :
            /\ hass.data[e].server \in 1..Len(servers)
            /\ is_running(servers[hass.data[e].server])
            /\ servers[hass.data[e].server].port = hass.data[e].port)
    /\ [](\A i \in 1..Len(servers) :
            i \notin Stored(hass) => ~servers[i]._running)
    /\ [][\A i \in Stored(hass) \ Stored(hass') :
            /\ ~servers'[i]._running
            /\ servers'[i].transport = None]_vars

\* Two entries are set up on two ports, after the setup of one of them took
\* the port from the other and stopped its server.
C28_Witness ==
    /\ call.op = "async_setup_entry"
    /\ call.raised = ""
    /\ Cardinality(DOMAIN hass.data) = 2
    /\ \E i \in 1..Len(servers) :
        /\ i \notin Stored(hass)
        /\ servers[i].port \in {hass.data[e].port : e \in DOMAIN hass.data}
        /\ ~servers[i]._running

\* C29: between calls the get_device_status service is registered exactly
\* when hass.data[DOMAIN] holds an entry.  A setup that fails after the
\* service is registered removes its entry and leaves the service; the
\* statement is violated.
C29_ServiceIffEntries ==
    (SERVICE \in hass.services) = (DOMAIN hass.data # {})

====
